---- MODULE Spec2Model ----
(***************************************************************************)
(* A model of the Flick engine: the recursive-descent parser's capability  *)
(* gate (src/src/parser.ts), the tree-walking evaluator with its           *)
(* Environment chains, groups, blueprints and instances                    *)
(* (src/src/interpreter.ts), the runner (src/src/runner.ts) and the web    *)
(* capability's request handler (src/src/plugins/builtins.ts).             *)
(*                                                                         *)
(* The evaluator is modelled statement by statement.  Every asynchronous   *)
(* activation (the main program, a task started without being awaited, a   *)
(* web request handler) is an evaluation with its own stack of frames; all *)
(* of them work on the one heap of Environments.                           *)
(***************************************************************************)
EXTENDS Integers, Sequences, FiniteSets, TLC

(***************************************************************************)
(* Bounds of the exploration.                                              *)
(***************************************************************************)
MaxStmts == 4         \* top-level statements of one explored program
MaxRequests == 2      \* HTTP requests the web server receives
MaxLines == 3         \* statements of one parsed file
MaxSums == 1          \* top-level statements of a program of the plus family
MaxTokens == 4        \* tokens before EOF of a file of the tokens family
MaxButtons == 2       \* buttons added to the window
MaxPending == 2       \* invocations of one click callback in progress

(***************************************************************************)
(* Runtime values (RuntimeValue = any, interpreter.ts:8).                  *)
(***************************************************************************)
Null == [t |-> "null"]
Num(n) == [t |-> "number", num |-> n]
Str(s) == [t |-> "string", str |-> s]
Bool(b) == [t |-> "boolean", bool |-> b]
Fn(id) == [t |-> "function", task |-> id]
Ctor(g) == [t |-> "function", group |-> g]
Builtin(b) == [t |-> "function", builtin |-> b]
Inst(id) == [t |-> "object", instance |-> id]
PromiseOf(id) == [t |-> "object", promise |-> id]
Undefined == [t |-> "undefined"]
List(items) == [t |-> "object", list |-> items]
\* a plain object: its own properties as [key, value] in insertion order
Obj(props) == [t |-> "object", props |-> props]
NaN == [t |-> "number", nan |-> TRUE]
Responded(content) == [t |-> "respond", content |-> content]

IsFunction(v) == v.t = "function"
IsTask(v) == v.t = "function" /\ "task" \in DOMAIN v
IsCtor(v) == v.t = "function" /\ "group" \in DOMAIN v
IsBuiltin(v) == v.t = "function" /\ "builtin" \in DOMAIN v
IsInst(v) == v.t = "object" /\ "instance" \in DOMAIN v
IsList(v) == v.t = "object" /\ "list" \in DOMAIN v
IsObj(v) == v.t = "object" /\ "props" \in DOMAIN v
IsNaN(v) == v.t = "number" /\ "nan" \in DOMAIN v

(***************************************************************************)
(* AST nodes, with the field names of the AST interfaces.                  *)
(***************************************************************************)
Literal(v) == [type |-> "Literal", value |-> v]
Identifier(n) == [type |-> "Identifier", name |-> n]
BinaryExpression(op, l, r) ==
    [type |-> "BinaryExpression", operator |-> op, left |-> l, right |-> r]
CallExpression(callee, args) ==
    [type |-> "CallExpression", callee |-> callee, args |-> args]
MemberExpression(obj, prop) ==
    [type |-> "MemberExpression", object |-> obj, property |-> prop, computed |-> FALSE]
\* obj[prop]: the property is an expression
ComputedMemberExpression(obj, prop) ==
    [type |-> "MemberExpression", object |-> obj, property |-> prop, computed |-> TRUE]
ArrayLiteral(elements) == [type |-> "ArrayLiteral", elements |-> elements]
Property(k, v) == [key |-> k, value |-> v]
ObjectLiteral(properties) == [type |-> "ObjectLiteral", properties |-> properties]
AskExpression(prompt) == [type |-> "AskExpression", prompt |-> prompt]
NoExpr == [type |-> "None"]

VariableDeclaration(n, m, init) ==
    [type |-> "VariableDeclaration", name |-> n, mutable |-> m, initializer |-> init]
Assignment(target, value) ==
    [type |-> "Assignment", target |-> target, value |-> value]
\* print e1 and e2 ...
PrintAll(es) == [type |-> "PrintStatement", expressions |-> es]
PrintStatement(e) == PrintAll(<<e>>)
ExpressionStatement(e) == [type |-> "ExpressionStatement", expression |-> e]
IfStatement(conds) == [type |-> "IfStatement", conditions |-> conds]
Branch(c, b) == [condition |-> c, body |-> b]
SelectStatement(e, cases) == [type |-> "SelectStatement", expression |-> e, cases |-> cases]
Case(k, conds, b) == [key |-> k, conditions |-> conds, body |-> b]
EachLoop(v, it, b) ==
    [type |-> "EachLoop", variable |-> v, iterable |-> it, body |-> b]
MarchLoop(v, s, e, b) ==
    [type |-> "MarchLoop", variable |-> v, start |-> s, end |-> e, body |-> b]
TaskDeclaration(n, params, b) ==
    [type |-> "TaskDeclaration", name |-> n, parameters |-> params, body |-> b]
GroupDeclaration(n, fields, methods) ==
    [type |-> "GroupDeclaration", name |-> n, fields |-> fields, methods |-> methods]
BlueprintDeclaration(n, sigs) ==
    [type |-> "BlueprintDeclaration", name |-> n, methods |-> sigs]
DoImplementation(b, g, methods) ==
    [type |-> "DoImplementation", blueprintName |-> b, groupName |-> g,
     methods |-> methods]
DeclareStatement(p) == [type |-> "DeclareStatement", plugin |-> p]
RouteStatement(path, b) == [type |-> "RouteStatement", path |-> path, body |-> b]
RespondStatement(e) == [type |-> "RespondStatement", content |-> e]

(***************************************************************************)
(* Errors thrown by the evaluator (the message kind and the name it        *)
(* carries).                                                               *)
(***************************************************************************)
NoError == [kind |-> "none", name |-> ""]
UndefinedVariable(n) == [kind |-> "Undefined variable", name |-> n]
CannotReassign(n) == [kind |-> "Cannot reassign immutable variable", name |-> n]
NotAFunction == [kind |-> "Not a function", name |-> ""]
\* the TypeError of the runtime on a property read of null or undefined
CannotReadProperty(prop) == [kind |-> "TypeError: Cannot read properties", name |-> prop]
\* the TypeError of JSON.stringify on an object that reaches itself
CircularStructure == [kind |-> "TypeError: Converting circular structure to JSON", name |-> ""]
EachRequiresArray == [kind |-> "each loop requires an array", name |-> ""]
UnknownGroup(n) == [kind |-> "Unknown group", name |-> n]
UnknownPlugin(n) == [kind |-> "Unknown plugin", name |-> n]
FeatureRequires(keyword, plugin) ==
    [kind |-> "Feature requires declare at top of file", name |-> keyword,
     plugin |-> plugin]
UnexpectedToken(v) == [kind |-> "Unexpected token", name |-> v]
Expected(type, got) == [kind |-> "Expected but got", name |-> type, got |-> got]

Parsing == [kind |-> "parsing", name |-> ""]
ParseOk == [kind |-> "ok", name |-> ""]

VARIABLES
    family,          \* which family of source programs is explored
    programAST,      \* the top-level statements evaluated so far (ast.body)
    envs,            \* heap of Environments; envs[1] is globalEnv
    tasks,           \* heap of task closures (node + captured Environment)
    groups,          \* Interpreter.groups: name -> GroupDefinition
    blueprints,      \* Interpreter.blueprints: name -> BlueprintDefinition
    instances,       \* heap of group instances
    output,          \* Interpreter.output, each line with the statement it came from
    evals,           \* the evaluations: evals[1] is interpret(ast)
    status,          \* "parsing", "running", "complete" (hooks run), "failed" (exit)
    error,           \* the error runFlick's catch received
    exitCode,        \* process exit code set by runFlick (0 while none)
    declaredPlugins, \* PluginManager's declared capabilities
    hooksRun,        \* the PluginContext of each run of runFileCompleteHooks
    raised,          \* errors thrown so far by statements, in order
    requests,        \* HTTP requests received by the web server
    source,          \* the tokens handed to the Parser's constructor
    tokens,          \* Parser.tokens
    position,        \* Parser.position
    body,            \* the Program body the parser has built
    parseResult,     \* Parsing, ParseOk or the error parse() threw
    window           \* the WindowManager: its process and its buttons

vars == <<family, programAST, envs, tasks, groups, blueprints, instances, output,
          evals, status, error, exitCode, declaredPlugins, hooksRun, raised,
          requests, source, tokens, position, body, parseResult, window>>

parserVars == <<source, tokens, position, body, parseResult>>

(***************************************************************************)
(* Environments.  An Environment is [parent, vars]; parent = 0 when there  *)
(* is none; vars maps a name to [value, mutable].                          *)
(***************************************************************************)
NewEnvironment(parent) == [parent |-> parent, vars |-> <<>>]

Binding(v, m) == [value |-> v, mutable |-> m]

\* Map.set on an Environment's vars
VarsSet(vs, name, binding) ==
    [n \in (DOMAIN vs) \cup {name} |-> IF n = name THEN binding ELSE vs[n]]

EnvSet(heap, e, name, binding) ==
    [heap EXCEPT ![e].vars = VarsSet(heap[e].vars, name, binding)]

\* the Environment on the chain from e that owns name, 0 when none does
RECURSIVE OwnerOf(_, _, _)
OwnerOf(heap, name, e) ==
    IF e = 0 THEN 0
    ELSE IF name \in DOMAIN heap[e].vars THEN e
    ELSE OwnerOf(heap, name, heap[e].parent)

Ok(v) == [error |-> NoError, value |-> v]
Err(e) == [error |-> e, value |-> Undefined]

\* lookupVariable once the walk up the chain has stopped at o
LookupAt(heap, name, o) ==
    IF o = 0 THEN Err(UndefinedVariable(name)) ELSE Ok(heap[o].vars[name].value)

lookupVariable(heap, name, e) == LookupAt(heap, name, OwnerOf(heap, name, e))

\* setVariable once the walk up the chain has stopped at o
SetAt(heap, name, value, o) ==
    IF o = 0 THEN [error |-> UndefinedVariable(name), envs |-> heap]
    ELSE IF ~heap[o].vars[name].mutable
    THEN [error |-> CannotReassign(name), envs |-> heap]
    ELSE [error |-> NoError, envs |-> EnvSet(heap, o, name, Binding(value, TRUE))]

\* the mutant writes through the mutability flag
SetAtNoCheck(heap, name, value, o) ==
    IF o = 0 THEN [error |-> UndefinedVariable(name), envs |-> heap]
    ELSE [error |-> NoError, envs |-> EnvSet(heap, o, name, Binding(value, TRUE))]

setVariableNoCheck(heap, name, value, e) ==
    SetAtNoCheck(heap, name, value, OwnerOf(heap, name, e))

setVariable(heap, name, value, e) == SetAt(heap, name, value, OwnerOf(heap, name, e))

isTruthy(v) == ~(v.t \in {"null", "undefined"} \/ v = Bool(FALSE))

(***************************************************************************)
(* Values of an instance seen from outside: obj[prop] on an instance is    *)
(* the bound method, else the field accessor, else undefined.              *)
(***************************************************************************)
BoundMethod(i, m) == [t |-> "function", instance |-> i, method |-> m]
IsBoundMethod(v) == v.t = "function" /\ "method" \in DOMAIN v

\* own properties of a plain object
Keys(props) == {props[i].key : i \in DOMAIN props}
ValueOf(props, k) == props[CHOOSE i \in DOMAIN props : props[i].key = k].value

\* obj[key] = value: a known key keeps its place
ObjSet(props, k, v) ==
    IF k \in Keys(props)
    THEN [i \in DOMAIN props |-> IF props[i].key = k THEN Property(k, v) ELSE props[i]]
    ELSE Append(props, Property(k, v))

Indices(items) == {ToString(i - 1) : i \in DOMAIN items}
ItemAt(items, k) == items[CHOOSE i \in DOMAIN items : ToString(i - 1) = k]

GetProperty(heap, insts, obj, prop) ==
    IF IsInst(obj)
    THEN IF prop \in DOMAIN insts[obj.instance].methods
         THEN BoundMethod(obj.instance, prop)
         ELSE IF prop \in insts[obj.instance].fields
                 /\ prop \in DOMAIN heap[insts[obj.instance].env].vars
         THEN heap[insts[obj.instance].env].vars[prop].value
         ELSE Undefined
    ELSE IF IsObj(obj)
    THEN IF prop \in Keys(obj.props) THEN ValueOf(obj.props, prop) ELSE Undefined
    ELSE IF IsList(obj)
    THEN IF prop = "length" THEN Num(Len(obj.list))
         ELSE IF prop \in Indices(obj.list) THEN ItemAt(obj.list, prop) ELSE Undefined
    ELSE IF obj.t = "string" /\ prop = "length" THEN Num(Len(obj.str))
    ELSE Undefined

\* obj.hasOwnProperty(key)
hasOwnProperty(insts, obj, key) ==
    IF IsInst(obj)
    THEN key \in {"__groupName", "__env"} \cup insts[obj.instance].fields
                    \cup DOMAIN insts[obj.instance].methods
    ELSE IF IsObj(obj) THEN key \in Keys(obj.props)
    ELSE IF IsList(obj) THEN key \in {"length"} \cup Indices(obj.list)
    ELSE IF obj.t = "string" THEN key = "length"
    ELSE FALSE

(***************************************************************************)
(* Conversions of the runtime.  JsString is the ToString of the language   *)
(* the evaluator runs on, used by + and by property keys; JsNumber its     *)
(* ToNumber on primitives.                                                 *)
(***************************************************************************)
\* String(f) of a function value: the text of the closure
FunctionText == "async (...args) => { ... }"

RECURSIVE JsString(_)

\* Array.prototype.join(","): null and undefined elements give no text
RECURSIVE JsJoin(_)
JsJoin(items) ==
    IF items = <<>> THEN ""
    ELSE (IF Head(items).t \in {"null", "undefined"} THEN "" ELSE JsString(Head(items)))
         \o (IF Tail(items) = <<>> THEN "" ELSE "," \o JsJoin(Tail(items)))

JsString(v) ==
    CASE v.t = "string" -> v.str
      [] v.t = "number" -> IF IsNaN(v) THEN "NaN" ELSE ToString(v.num)
      [] v.t = "boolean" -> IF v.bool THEN "true" ELSE "false"
      [] v.t = "null" -> "null"
      [] v.t = "undefined" -> "undefined"
      [] v.t = "object" -> IF IsList(v) THEN JsJoin(v.list)
                           ELSE IF "promise" \in DOMAIN v THEN "[object Promise]"
                           ELSE "[object Object]"
      [] OTHER -> FunctionText

\* ToPrimitive: objects and functions become their text
ToPrimitive(v) == IF v.t \in {"object", "function"} THEN Str(JsString(v)) ELSE v

JsNumber(v) ==
    CASE v.t = "number" -> v
      [] v.t = "boolean" -> Num(IF v.bool THEN 1 ELSE 0)
      [] v.t = "null" -> Num(0)
      [] OTHER -> NaN

NumericAdd(l, r) == IF IsNaN(l) \/ IsNaN(r) THEN NaN ELSE Num(l.num + r.num)

\* left + right on primitives: text when either is a string, else numbers
AddPrimitives(l, r) ==
    IF l.t = "string" \/ r.t = "string" THEN Str(JsString(l) \o JsString(r))
    ELSE NumericAdd(JsNumber(l), JsNumber(r))

JsAdd(l, r) == AddPrimitives(ToPrimitive(l), ToPrimitive(r))

Numbers(l, r) == l.t = "number" /\ r.t = "number" /\ ~IsNaN(l) /\ ~IsNaN(r)

(***************************************************************************)
(* evaluateExpression for the expressions that make no call.  The          *)
(* operators other than + are modelled on numbers; == and != compare       *)
(* primitives and instances.                                               *)
(***************************************************************************)
BinaryOp(op, l, r) ==
    CASE op = "+" -> JsAdd(l, r)
      [] op = "==" -> Bool(l = r)
      [] op = "!=" -> Bool(l # r)
      [] op = "-" /\ Numbers(l, r) -> Num(l.num - r.num)
      [] op = "*" /\ Numbers(l, r) -> Num(l.num * r.num)
      [] op = "<" /\ Numbers(l, r) -> Bool(l.num < r.num)
      [] op = ">" /\ Numbers(l, r) -> Bool(l.num > r.num)
      [] op = "<=" /\ Numbers(l, r) -> Bool(l.num <= r.num)
      [] op = ">=" /\ Numbers(l, r) -> Bool(l.num >= r.num)
      [] OTHER -> Undefined

BinaryResult(op, l, r) ==
    IF l.error # NoError THEN l
    ELSE IF r.error # NoError THEN r
    ELSE Ok(BinaryOp(op, l.value, r.value))

\* obj[prop]: the object, then the property, then the read
MemberResult(heap, insts, o, k) ==
    IF o.error # NoError THEN o
    ELSE IF k.error # NoError THEN k
    ELSE IF o.value.t \in {"null", "undefined"}
    THEN Err(CannotReadProperty(JsString(k.value)))
    ELSE Ok(GetProperty(heap, insts, o.value, JsString(k.value)))

\* the index of the first error among results, 0 when there is none
FirstError(el) ==
    IF \E i \in DOMAIN el : el[i].error # NoError
    THEN CHOOSE i \in DOMAIN el :
            /\ el[i].error # NoError
            /\ \A j \in DOMAIN el : el[j].error # NoError => i <= j
    ELSE 0

\* the elements' values, or the first error among them
ArrayResult(el) ==
    IF FirstError(el) # 0 THEN el[FirstError(el)]
    ELSE Ok(List([i \in DOMAIN el |-> el[i].value]))

RECURSIVE ObjectFrom(_, _, _)
ObjectFrom(props, properties, el) ==
    IF properties = <<>> THEN props
    ELSE ObjectFrom(ObjSet(props, Head(properties).key, Head(el).value),
                    Tail(properties), Tail(el))

\* the properties' values set in order, or the first error among them
ObjectResult(properties, el) ==
    IF FirstError(el) # 0 THEN el[FirstError(el)]
    ELSE Ok(Obj(ObjectFrom(<<>>, properties, el)))

RECURSIVE evaluateExpression(_, _, _, _)
evaluateExpression(heap, insts, node, e) ==
    CASE node.type = "Literal" -> Ok(node.value)
      [] node.type = "Identifier" -> lookupVariable(heap, node.name, e)
      [] node.type = "BinaryExpression" ->
            BinaryResult(node.operator,
                         evaluateExpression(heap, insts, node.left, e),
                         evaluateExpression(heap, insts, node.right, e))
      [] node.type = "MemberExpression" ->
            MemberResult(heap, insts, evaluateExpression(heap, insts, node.object, e),
                         IF node.computed
                         THEN evaluateExpression(heap, insts, node.property, e)
                         ELSE Ok(Str(node.property)))
      [] node.type = "ArrayLiteral" ->
            ArrayResult([i \in DOMAIN node.elements |->
                            evaluateExpression(heap, insts, node.elements[i], e)])
      [] node.type = "ObjectLiteral" ->
            ObjectResult(node.properties,
                         [i \in DOMAIN node.properties |->
                            evaluateExpression(heap, insts, node.properties[i].value, e)])
      [] OTHER -> Ok(Null)

ArgsResult(a, rest) ==
    IF a.error # NoError THEN [error |-> a.error, values |-> <<>>]
    ELSE IF rest.error # NoError THEN rest
    ELSE [error |-> NoError, values |-> <<a.value>> \o rest.values]

RECURSIVE evaluateArgs(_, _, _, _)
evaluateArgs(heap, insts, args, e) ==
    IF args = <<>> THEN [error |-> NoError, values |-> <<>>]
    ELSE ArgsResult(evaluateExpression(heap, insts, Head(args), e),
                    evaluateArgs(heap, insts, Tail(args), e))

(***************************************************************************)
(* stringify: strings as they are, yes/no for booleans, null, and          *)
(* JSON.stringify for lists and objects.  An instance reaches the          *)
(* interpreter through __env.parent and back, so JSON.stringify throws on  *)
(* it: Stringifies tells the values stringify returns for.                 *)
(***************************************************************************)
RECURSIVE Json(_)

RECURSIVE JsonItems(_)
JsonItems(items) ==
    IF items = <<>> THEN ""
    ELSE (IF Head(items).t \in {"undefined", "function"} THEN "null" ELSE Json(Head(items)))
         \o (IF Tail(items) = <<>> THEN "" ELSE "," \o JsonItems(Tail(items)))

\* properties whose value is undefined or a function are left out
Serialisable(props) ==
    SelectSeq(props, LAMBDA pr : pr.value.t \notin {"undefined", "function"})

RECURSIVE JsonProperties(_)
JsonProperties(props) ==
    IF props = <<>> THEN ""
    ELSE "\"" \o Head(props).key \o "\":" \o Json(Head(props).value)
         \o (IF Tail(props) = <<>> THEN "" ELSE "," \o JsonProperties(Tail(props)))

Json(v) ==
    CASE v.t = "string" -> "\"" \o v.str \o "\""
      [] v.t = "number" -> IF IsNaN(v) THEN "null" ELSE ToString(v.num)
      [] v.t = "boolean" -> IF v.bool THEN "true" ELSE "false"
      [] v.t = "null" -> "null"
      [] v.t = "object" ->
            IF IsList(v) THEN "[" \o JsonItems(v.list) \o "]"
            ELSE IF IsObj(v) THEN "{" \o JsonProperties(Serialisable(v.props)) \o "}"
            ELSE "{}"
      [] OTHER -> "undefined"

RECURSIVE Stringifies(_)
Stringifies(v) ==
    IF IsInst(v) THEN FALSE
    ELSE IF IsList(v) THEN \A i \in DOMAIN v.list : Stringifies(v.list[i])
    ELSE IF IsObj(v) THEN \A i \in DOMAIN v.props : Stringifies(v.props[i].value)
    ELSE TRUE

stringify(v) ==
    CASE v.t = "string" -> v.str
      [] v.t = "number" -> IF IsNaN(v) THEN "NaN" ELSE ToString(v.num)
      [] v.t = "boolean" -> IF v.bool THEN "yes" ELSE "no"
      [] v.t \in {"null", "undefined"} -> "null"
      [] v.t = "object" -> Json(v)
      [] OTHER -> JsString(v)

(***************************************************************************)
(* Frames and evaluations.  A frame is one activation of a statement list: *)
(* env is the Environment its statements run in, outer the Environment the *)
(* enclosing statement ran in, then what the caller does with the result,  *)
(* self the instance whose method the frame belongs to (0 for none).       *)
(***************************************************************************)
NoThen == [op |-> "none"]
ThenDeclare(n, m) == [op |-> "declare", name |-> n, mutable |-> m]
ThenAssign(n) == [op |-> "assign", name |-> n]
\* print goes on: the parts stringified so far, the expressions to come
ThenPrint(parts, rest) == [op |-> "print", parts |-> parts, rest |-> rest]

Frame(kind, env, outer, stmts, then, self) ==
    [kind |-> kind, env |-> env, outer |-> outer, body |-> stmts, pc |-> 1,
     then |-> then, self |-> self, variable |-> "", items |-> <<>>, result |-> Null]

\* the wait for a timer or for a line of input; result is what the wait yields
AwaitFrame(e, then, result) ==
    [kind |-> "await", env |-> e, outer |-> e, body |-> <<>>, pc |-> 1,
     then |-> then, self |-> 0, variable |-> "", items |-> <<>>, result |-> result]

LoopFrame(kind, env, outer, stmts, variable, items, self) ==
    [kind |-> kind, env |-> env, outer |-> outer, body |-> stmts, pc |-> 1,
     then |-> NoThen, self |-> self, variable |-> variable, items |-> items,
     result |-> Null]

Evaluation(kind, stack, origin) ==
    [kind |-> kind, stack |-> stack, state |-> "running", origin |-> origin,
     response |-> ""]

\* the part of the state a statement handler may change
World ==
    [envs |-> envs, tasks |-> tasks, groups |-> groups, blueprints |-> blueprints,
     instances |-> instances, output |-> output, spawned |-> <<>>]

\* outcome of a handler: an error thrown or the new world, the frames the
\* handler entered, whether it waits on a timer, the value it returns
Outcome(w) ==
    [error |-> NoError, w |-> w, push |-> <<>>, suspend |-> FALSE, value |-> Null]
Thrown(w, e) ==
    [error |-> e, w |-> w, push |-> <<>>, suspend |-> FALSE, value |-> Undefined]
Entering(w, frame) ==
    [error |-> NoError, w |-> w, push |-> <<frame>>, suspend |-> FALSE, value |-> Null]
Waiting(w, frame) ==
    [error |-> NoError, w |-> w, push |-> <<frame>>, suspend |-> TRUE, value |-> Null]

TopFrame(p) == evals[p].stack[Len(evals[p].stack)]

(***************************************************************************)
(* executeTask / executeTaskWithEnv: a fresh Environment whose parent is   *)
(* the closure's (the instance's) Environment, parameters bound mutable.   *)
(***************************************************************************)
LastIndexOf(params, n) ==
    CHOOSE k \in DOMAIN params :
        params[k] = n /\ \A j \in DOMAIN params : params[j] = n => j <= k

ArgumentAt(args, i) == IF i <= Len(args) THEN args[i] ELSE Null

BindParameters(params, args) ==
    [n \in {params[i] : i \in DOMAIN params} |->
        Binding(ArgumentAt(args, LastIndexOf(params, n)), TRUE)]

TaskEnvironment(parent, node, args) ==
    [parent |-> parent, vars |-> BindParameters(node.parameters, args)]

(***************************************************************************)
(* evaluateExpressionSync, used for field initializers.  A call is made    *)
(* but its promise is not awaited, so a task it starts runs on as a        *)
(* separate evaluation.  Returns [error, w, value].                        *)
(***************************************************************************)
CannotEvaluateSync(ty) == [kind |-> "Cannot evaluate synchronously", name |-> ty]

SyncOk(w, v) == [error |-> NoError, w |-> w, value |-> v]
SyncErr(w, e) == [error |-> e, w |-> w, value |-> Undefined]

SyncPure(w, r) == [error |-> r.error, w |-> w, value |-> r.value]

\* callee(...args) on a task: executeTask starts and its promise is dropped
SyncStartTask(w, cl, args, e, origin) ==
    SyncOk([w EXCEPT
              !.envs = Append(@, TaskEnvironment(cl.env, cl.node, args)),
              !.spawned = Append(@, Evaluation("detached",
                              <<Frame("task", Len(w.envs) + 1, e, cl.node.body, NoThen, 0)>>,
                              origin))],
           PromiseOf(Len(evals) + Len(w.spawned) + 1))

RECURSIVE instantiateGroup(_, _, _, _, _)

SyncCall(w, c, a, e, origin, now) ==
    IF c.error # NoError THEN SyncErr(w, c.error)
    ELSE IF a.error # NoError THEN SyncErr(w, a.error)
    ELSE IF IsTask(c.value) THEN SyncStartTask(w, w.tasks[c.value.task], a.values, e, origin)
    ELSE IF IsCtor(c.value) THEN instantiateGroup(w, c.value.group, a.values, origin, now)
    ELSE IF IsBuiltin(c.value) THEN SyncOk(w, PromiseOf(0))
    ELSE IF IsFunction(c.value) THEN SyncOk(w, PromiseOf(0))
    ELSE SyncErr(w, NotAFunction)

evaluateExpressionSync(w, node, e, origin, now) ==
    IF node.type \in {"Literal", "Identifier", "BinaryExpression", "ArrayLiteral"}
    THEN SyncPure(w, evaluateExpression(w.envs, w.instances, node, e))
    ELSE IF node.type = "CallExpression"
    THEN IF node.callee.type \in {"Literal", "Identifier"}
         THEN SyncCall(w, evaluateExpression(w.envs, w.instances, node.callee, e),
                       evaluateArgs(w.envs, w.instances, node.args, e), e, origin, now)
         ELSE SyncErr(w, CannotEvaluateSync(node.callee.type))
    ELSE SyncErr(w, CannotEvaluateSync(node.type))

(***************************************************************************)
(* instantiateGroup.  InitializeFields is its loop over groupDef.fields.   *)
(***************************************************************************)
\* the value a field without initializer takes
ArgumentOrNull(args, argIndex) ==
    IF argIndex < Len(args) THEN args[argIndex + 1] ELSE Null

\* the mutant consumes a constructor argument for every field
NextArgIndexAlways(field, args, argIndex) ==
    IF argIndex < Len(args) THEN argIndex + 1 ELSE argIndex

\* argIndex after a field: only a field without initializer consumes one
NextArgIndex(field, args, argIndex) ==
    IF field.initializer.type = "None" /\ argIndex < Len(args)
    THEN argIndex + 1 ELSE argIndex

FieldValue(w, field, args, argIndex, ie, origin, now) ==
    IF field.initializer.type # "None"
    THEN evaluateExpressionSync(w, field.initializer, ie, origin, now)
    ELSE SyncOk(w, ArgumentOrNull(args, argIndex))

RECURSIVE InitializeFields(_, _, _, _, _, _, _)

\* instance.__env.vars.set(field.name, {value, mutable}), then the next field
AfterField(r, fields, args, argIndex, ie, origin, now) ==
    IF r.error # NoError THEN [error |-> r.error, w |-> r.w]
    ELSE InitializeFields(
            [r.w EXCEPT !.envs = EnvSet(@, ie, Head(fields).name,
                                        Binding(r.value, Head(fields).mutable))],
            Tail(fields), args, NextArgIndex(Head(fields), args, argIndex),
            ie, origin, now)

InitializeFields(w, fields, args, argIndex, ie, origin, now) ==
    IF fields = <<>> THEN [error |-> NoError, w |-> w]
    ELSE AfterField(FieldValue(w, Head(fields), args, argIndex, ie, origin, now),
                    fields, args, argIndex, ie, origin, now)

\* the mutant binds the methods of the group body only
BindGroupMethodsOnly(methods, impls) == methods

\* one implementation block's methods over the methods bound so far
BindOver(methods, m) ==
    [n \in (DOMAIN methods) \cup (DOMAIN m) |->
        IF n \in DOMAIN m THEN m[n] ELSE methods[n]]

\* methods of the group body, then each implementation block in insertion
\* order, a later binding replacing an earlier one of the same name
RECURSIVE BindImplementations(_, _)
BindImplementations(methods, impls) ==
    IF impls = <<>> THEN methods
    ELSE BindImplementations(BindOver(methods, Head(impls).methods), Tail(impls))

FieldNames(fields) == {fields[i].name : i \in DOMAIN fields}

\* an instance: its field Environment, its accessors and bound methods; args,
\* decl, initial and born record how and when it was made
Instance(g, e, groupDef, args, heap, now) ==
    [groupName |-> g, env |-> e, fields |-> FieldNames(groupDef.fields),
     methods |-> BindImplementations(groupDef.methods, groupDef.implementations),
     args |-> args, decl |-> groupDef.fields, initial |-> heap[e].vars, born |-> now]

\* the mutant keeps one field Environment per group
InstanceEnvShared(w, groupName) ==
    IF \E i \in DOMAIN w.instances : w.instances[i].groupName = groupName
    THEN w.instances[CHOOSE i \in DOMAIN w.instances :
                        w.instances[i].groupName = groupName].env
    ELSE Len(w.envs) + 1

\* instance.__env = { vars: new Map(), parent: globalEnv }
InstanceEnv(w, groupName) == Len(w.envs) + 1

FinishInstance(r, groupName, groupDef, args, ie, now) ==
    IF r.error # NoError THEN SyncErr(r.w, r.error)
    ELSE SyncOk([r.w EXCEPT !.instances =
                    Append(@, Instance(groupName, ie, groupDef, args, r.w.envs, now))],
                Inst(Len(r.w.instances) + 1))

InstantiateIn(w, groupName, groupDef, args, ie, origin, now) ==
    FinishInstance(
        InitializeFields([w EXCEPT !.envs = Append(@, NewEnvironment(1))],
                         groupDef.fields, args, 0, ie, origin, now),
        groupName, groupDef, args, ie, now)

instantiateGroup(w, groupName, args, origin, now) ==
    IF groupName \notin DOMAIN w.groups THEN SyncErr(w, UnknownGroup(groupName))
    ELSE InstantiateIn(w, groupName, w.groups[groupName], args,
                       InstanceEnv(w, groupName), origin, now)

(***************************************************************************)
(* What the caller does with the value of an awaited call.                 *)
(***************************************************************************)
OutputLine(text, label, p) == [text |-> text, stmt |-> label, eval |-> p]

RECURSIVE PrintFrom(_, _, _, _, _, _)

\* parts.push(this.stringify(value)), then the expressions after it
PushPart(w, then, e, v, label, p) ==
    IF ~Stringifies(v) THEN Thrown(w, CircularStructure)
    ELSE PrintFrom(w, then.parts \o stringify(v), then.rest, e, label, p)

AssignResult(w, r) ==
    IF r.error # NoError THEN Thrown(w, r.error) ELSE Outcome([w EXCEPT !.envs = r.envs])

ApplyThen(w, then, e, v, label, p) ==
    CASE then.op = "declare" ->
            Outcome([w EXCEPT !.envs = EnvSet(@, e, then.name, Binding(v, then.mutable))])
      [] then.op = "assign" -> AssignResult(w, setVariable(w.envs, then.name, v, e))
      [] then.op = "print" -> PushPart(w, then, e, v, label, p)
      [] OTHER -> Outcome(w)

\* an evaluated expression handed to the statement's continuation
Then(w, r, then, e, label, p) ==
    IF r.error # NoError THEN Thrown(w, r.error)
    ELSE ApplyThen(w, then, e, r.value, label, p)

(***************************************************************************)
(* Calling a function value and awaiting it (evaluateCall, the auto-call   *)
(* of print and of a member expression statement).                         *)
(***************************************************************************)
EnterTask(w, cl, args, e, then) ==
    Entering([w EXCEPT !.envs = Append(@, TaskEnvironment(cl.env, cl.node, args))],
             Frame("task", Len(w.envs) + 1, e, cl.node.body, then, 0))

\* the mutant runs a method as a plain task of the global scope
EnterMethodInGlobal(w, i, f, args, e, then) ==
    Entering([w EXCEPT !.envs = Append(@, TaskEnvironment(1, i.methods[f.method], args))],
             Frame("method", Len(w.envs) + 1, e, i.methods[f.method].body, then,
                   f.instance))

EnterMethod(w, i, f, args, e, then) ==
    Entering([w EXCEPT !.envs = Append(@, TaskEnvironment(i.env, i.methods[f.method], args))],
             Frame("method", Len(w.envs) + 1, e, i.methods[f.method].body, then,
                   f.instance))

CtorResult(r, then, e, label, p) ==
    IF r.error # NoError THEN Thrown(r.w, r.error)
    ELSE ApplyThen(r.w, then, e, r.value, label, p)

Call(w, f, args, e, then, label, p) ==
    IF IsTask(f) THEN EnterTask(w, w.tasks[f.task], args, e, then)
    ELSE IF IsBoundMethod(f)
    THEN EnterMethod(w, w.instances[f.instance], f, args, e, then)
    ELSE IF IsCtor(f)
    THEN CtorResult(instantiateGroup(w, f.group, args, label, label), then, e, label, p)
    ELSE IF IsBuiltin(f)
    THEN IF f.builtin = "sleep" THEN Waiting(w, AwaitFrame(e, then, Undefined))
         ELSE ApplyThen(w, then, e, Num(0), label, p)
    ELSE Thrown(w, NotAFunction)

CallWith(w, c, a, e, then, label, p) ==
    IF c.error # NoError THEN Thrown(w, c.error)
    ELSE IF a.error # NoError THEN Thrown(w, a.error)
    ELSE Call(w, c.value, a.values, e, then, label, p)

\* evaluateCall: callee, then the arguments, then the call
evaluateCall(w, node, e, then, label, p) ==
    CallWith(w, evaluateExpression(w.envs, w.instances, node.callee, e),
             evaluateArgs(w.envs, w.instances, node.args, e), e, then, label, p)

(***************************************************************************)
(* The statement an evaluation executes next.  At top level the program is *)
(* explored statement by statement: any statement of the family that the   *)
(* parser would have accepted at this place may come next.                 *)
(***************************************************************************)
Alive == status \in {"running", "complete"}

\* the program is read from a token file
FromSource == family \in {"parser", "calls", "tokens"}

ParserAccepts(s) ==
    CASE s.type = "DeclareStatement" ->
            \A i \in DOMAIN programAST : programAST[i].type = "DeclareStatement"
      [] s.type = "RouteStatement" -> "web" \in declaredPlugins
      [] OTHER -> TRUE

\* the statements evaluation p may execute next: the statement at pc of its
\* top frame; at top level the next statement of the parsed body, or, when
\* the program is explored, any statement of the family
CurrentStmts(p, alphabet) ==
    IF ~Alive \/ evals[p].state # "running" THEN {}
    ELSE IF TopFrame(p).kind = "program"
    THEN IF status # "running" THEN {}
         ELSE IF FromSource
         THEN IF Len(programAST) < Len(body) THEN {body[Len(programAST) + 1]} ELSE {}
         ELSE IF Len(programAST) < (IF family = "plus" THEN MaxSums ELSE MaxStmts)
         THEN {s \in alphabet : ParserAccepts(s)} ELSE {}
    ELSE IF TopFrame(p).pc <= Len(TopFrame(p).body)
    THEN {TopFrame(p).body[TopFrame(p).pc]} ELSE {}

Fetch(p, s) ==
    programAST' = IF TopFrame(p).kind = "program" THEN Append(programAST, s)
                  ELSE programAST

\* the top-level statement an effect belongs to
Label(p) == IF evals[p].kind = "main" THEN Len(programAST') ELSE evals[p].origin

(***************************************************************************)
(* A thrown error is not caught by the evaluator.  In the main evaluation  *)
(* it reaches runFlick's catch (runner.ts:75-78); in a request handler the *)
(* handler's own catch answers 500 (builtins.ts:105-108); in an evaluation *)
(* nobody awaits it rejects that evaluation's promise.                     *)
(***************************************************************************)
Raise(p, e, spawned) ==
    /\ raised' = Append(raised, [eval |-> p, error |-> e])
    /\ CASE evals[p].kind = "main" ->
              /\ status' = "failed"
              /\ error' = e
              /\ exitCode' = 1
              /\ evals' = [evals EXCEPT ![p].state = "rejected"] \o spawned
         [] evals[p].kind = "handler" ->
              /\ evals' = [evals EXCEPT ![p].state = "done",
                                        ![p].response = "500"] \o spawned
              /\ UNCHANGED <<status, error, exitCode>>
         [] OTHER ->
              /\ evals' = [evals EXCEPT ![p].state = "rejected"] \o spawned
              /\ UNCHANGED <<status, error, exitCode>>

\* the evaluation goes on from stack base, entering the frames the handler
\* opened; an evaluation whose stack is empty has completed
Proceed(p, r, base) ==
    LET top == TopFrame(p)
        st == base \o r.push
    IN /\ evals' = [evals EXCEPT ![p].stack = st,
                                 ![p].state = IF r.suspend THEN "suspended"
                                              ELSE IF st = <<>> THEN "done" ELSE @,
                                 ![p].response = IF top.kind = "handler"
                                                    /\ r.value.t = "respond"
                                                 THEN r.value.content ELSE @]
                   \o r.w.spawned
       /\ UNCHANGED <<status, error, exitCode, raised>>

Commit(p, r, base) ==
    /\ envs' = r.w.envs
    /\ tasks' = r.w.tasks
    /\ groups' = r.w.groups
    /\ blueprints' = r.w.blueprints
    /\ instances' = r.w.instances
    /\ output' = r.w.output
    /\ IF r.error # NoError THEN Raise(p, r.error, r.w.spawned) ELSE Proceed(p, r, base)
    /\ UNCHANGED <<family, window, hooksRun, requests, parserVars>>

\* the stack once the current statement is stepped past
Stepped(p) ==
    LET st == evals[p].stack
        n == Len(st)
    IN IF st[n].kind = "program" THEN st ELSE [st EXCEPT ![n].pc = @ + 1]

\* the stack once the top frame has returned
Popped(p) == SubSeq(evals[p].stack, 1, Len(evals[p].stack) - 1)

\* the top frame of a running evaluation has no statement left
AtEnd(p, kinds) ==
    /\ Alive
    /\ evals[p].state = "running"
    /\ TopFrame(p).kind \in kinds
    /\ TopFrame(p).pc > Len(TopFrame(p).body)


(***************************************************************************)
(* Statement handlers of evaluateStatement.  Each returns the outcome of   *)
(* executing statement s in Environment e.                                 *)
(***************************************************************************)
\* the mutant refuses to declare over an immutable binding of the same scope
DeclareVariableOnce(w, s, e, label, p) ==
    IF s.name \in DOMAIN w.envs[e].vars /\ ~w.envs[e].vars[s.name].mutable
    THEN Thrown(w, CannotReassign(s.name))
    ELSE IF s.initializer.type = "None"
    THEN Outcome([w EXCEPT !.envs = EnvSet(@, e, s.name, Binding(Null, s.mutable))])
    ELSE IF s.initializer.type = "CallExpression"
    THEN evaluateCall(w, s.initializer, e, ThenDeclare(s.name, s.mutable), label, p)
    ELSE Then(w, evaluateExpression(w.envs, w.instances, s.initializer, e),
              ThenDeclare(s.name, s.mutable), e, label, p)

DeclareVariable(w, s, e, label, p) ==
    IF s.initializer.type = "None"
    THEN Outcome([w EXCEPT !.envs = EnvSet(@, e, s.name, Binding(Null, s.mutable))])
    ELSE IF s.initializer.type = "CallExpression"
    THEN evaluateCall(w, s.initializer, e, ThenDeclare(s.name, s.mutable), label, p)
    ELSE Then(w, evaluateExpression(w.envs, w.instances, s.initializer, e),
              ThenDeclare(s.name, s.mutable), e, label, p)

\* the setter of a field accessor
SetField(w, ie, prop, v) ==
    IF ~w.envs[ie].vars[prop].mutable THEN Thrown(w, CannotReassign(prop))
    ELSE Outcome([w EXCEPT !.envs = EnvSet(@, ie, prop, Binding(v, TRUE))])

\* obj[prop] = value on an instance goes through the field accessor's setter
SetProperty(w, obj, prop, v) ==
    IF IsInst(obj) /\ prop \in w.instances[obj.instance].fields
    THEN SetField(w, w.instances[obj.instance].env, prop, v)
    ELSE Outcome(w)

AssignMember(w, r, o, prop) ==
    IF r.error # NoError THEN Thrown(w, r.error)
    ELSE IF o.error # NoError THEN Thrown(w, o.error)
    ELSE SetProperty(w, o.value, prop, r.value)

AssignVariable(w, s, e, label, p) ==
    IF s.target.type = "Identifier"
    THEN IF s.value.type = "CallExpression"
         THEN evaluateCall(w, s.value, e, ThenAssign(s.target.name), label, p)
         ELSE Then(w, evaluateExpression(w.envs, w.instances, s.value, e),
                   ThenAssign(s.target.name), e, label, p)
    ELSE AssignMember(w, evaluateExpression(w.envs, w.instances, s.value, e),
                      evaluateExpression(w.envs, w.instances, s.target.object, e),
                      s.target.property)

\* the mutant calls a function value whatever the expression is
PrintValueCallsAny(w, r, x, parts, rest, e, label, p) ==
    IF r.error # NoError THEN Thrown(w, r.error)
    ELSE IF IsFunction(r.value)
    THEN Call(w, r.value, <<>>, e, ThenPrint(parts, rest), label, p)
    ELSE ApplyThen(w, ThenPrint(parts, rest), e, r.value, label, p)

\* print calls a function value only when the expression is an identifier
PrintValue(w, r, x, parts, rest, e, label, p) ==
    IF r.error # NoError THEN Thrown(w, r.error)
    ELSE IF IsFunction(r.value) /\ x.type = "Identifier"
    THEN Call(w, r.value, <<>>, e, ThenPrint(parts, rest), label, p)
    ELSE ApplyThen(w, ThenPrint(parts, rest), e, r.value, label, p)

\* the expressions from exprs on, after the parts already stringified; one
\* line is pushed when none is left
PrintFrom(w, parts, exprs, e, label, p) ==
    IF exprs = <<>>
    THEN Outcome([w EXCEPT !.output = Append(@, OutputLine(parts, label, p))])
    ELSE IF Head(exprs).type = "CallExpression"
    THEN evaluateCall(w, Head(exprs), e, ThenPrint(parts, Tail(exprs)), label, p)
    ELSE PrintValue(w, evaluateExpression(w.envs, w.instances, Head(exprs), e),
                    Head(exprs), parts, Tail(exprs), e, label, p)

ExecutePrint(w, s, e, label, p) == PrintFrom(w, "", s.expressions, e, label, p)

NoBranch(err) == [error |-> err, taken |-> FALSE, body |-> <<>>]
Taken(stmts) == [error |-> NoError, taken |-> TRUE, body |-> stmts]

RECURSIVE ChooseBranch(_, _, _)

\* the mutant has no break: the later branches are tried as well
BranchOnNoBreak(c, w, conds, e) ==
    IF c.error # NoError THEN NoBranch(c.error)
    ELSE IF isTruthy(c.value)
    THEN [ChooseBranch(w, Tail(conds), e) EXCEPT
            !.taken = (@ \/ TRUE), !.body = Head(conds).body \o @]
    ELSE ChooseBranch(w, Tail(conds), e)

BranchOn(c, w, conds, e) ==
    IF c.error # NoError THEN NoBranch(c.error)
    ELSE IF isTruthy(c.value) THEN Taken(Head(conds).body)
    ELSE ChooseBranch(w, Tail(conds), e)

\* the body of the first branch that is the otherwise branch or whose
\* condition is truthy
ChooseBranch(w, conds, e) ==
    IF conds = <<>> THEN NoBranch(NoError)
    ELSE IF Head(conds).condition.type = "None" THEN Taken(Head(conds).body)
    ELSE BranchOn(evaluateExpression(w.envs, w.instances, Head(conds).condition, e),
                  w, conds, e)

\* a branch body runs in the Environment of the assume statement itself
EnterBranch(w, b, e, self) ==
    IF b.error # NoError THEN Thrown(w, b.error)
    ELSE IF ~b.taken THEN Outcome(w)
    ELSE Entering(w, Frame("if", e, e, b.body, NoThen, self))

ExecuteIf(w, s, e, self) == EnterBranch(w, ChooseBranch(w, s.conditions, e), e, self)

LoopEnvironment(parent, variable, item) ==
    [parent |-> parent, vars |-> VarsSet(<<>>, variable, Binding(item, FALSE))]

\* enter the first iteration of a loop over items, if there is one
EnterLoop(w, kind, s, items, e, self) ==
    IF items = <<>> THEN Outcome(w)
    ELSE Entering([w EXCEPT !.envs = Append(@, LoopEnvironment(e, s.variable, Head(items)))],
                  LoopFrame(kind, Len(w.envs) + 1, e, s.body, s.variable,
                            Tail(items), self))

EachOver(w, it, s, e, self) ==
    IF it.error # NoError THEN Thrown(w, it.error)
    ELSE IF ~IsList(it.value) THEN Thrown(w, EachRequiresArray)
    ELSE EnterLoop(w, "each", s, it.value.list, e, self)

ExecuteEachLoop(w, s, e, self) ==
    EachOver(w, evaluateExpression(w.envs, w.instances, s.iterable, e), s, e, self)

\* the mutant stops before the end: i < end
RangeBelow(a, b) ==
    IF IsNaN(JsNumber(a)) \/ IsNaN(JsNumber(b)) THEN <<>>
    ELSE [i \in 1..(JsNumber(b).num - JsNumber(a).num) |->
            IF i = 1 THEN a ELSE Num(JsNumber(a).num + i - 1)]

\* for (let i = start; i <= end; i++): the values i takes.  The comparison
\* and ++ convert null and booleans to numbers; the first value is start
\* itself.  Bounds that are strings or objects are not explored.
Range(a, b) ==
    IF IsNaN(JsNumber(a)) \/ IsNaN(JsNumber(b)) THEN <<>>
    ELSE [i \in 1..(JsNumber(b).num - JsNumber(a).num + 1) |->
            IF i = 1 THEN a ELSE Num(JsNumber(a).num + i - 1)]

MarchOver(w, a, b, s, e, self) ==
    IF a.error # NoError THEN Thrown(w, a.error)
    ELSE IF b.error # NoError THEN Thrown(w, b.error)
    ELSE EnterLoop(w, "march", s, Range(a.value, b.value), e, self)

ExecuteMarchLoop(w, s, e, self) ==
    MarchOver(w, evaluateExpression(w.envs, w.instances, s.start, e),
              evaluateExpression(w.envs, w.instances, s.end, e), s, e, self)

(***************************************************************************)
(* executeSelect.  The subject is evaluated once; the cases are taken in   *)
(* source order; a case's conditions are evaluated in the Environment of   *)
(* the select statement and its body runs in that same Environment.  The   *)
(* select frame holds the subject in result and the cases still to be      *)
(* considered in items.                                                    *)
(***************************************************************************)
NoCase(err) == [error |-> err, index |-> 0]
CaseAt(k) == [error |-> NoError, index |-> k]

RECURSIVE shouldExecute(_, _, _)

\* the mutant takes a case by its key alone
shouldExecuteAlways(w, conds, e) == Ok(Bool(TRUE))

ConditionHolds(c, w, conds, e) ==
    IF c.error # NoError THEN c
    ELSE IF ~isTruthy(c.value) THEN Ok(Bool(FALSE))
    ELSE shouldExecute(w, Tail(conds), e)

\* every condition is truthy; the first falsy one ends the evaluation
shouldExecute(w, conds, e) ==
    IF conds = <<>> THEN Ok(Bool(TRUE))
    ELSE ConditionHolds(evaluateExpression(w.envs, w.instances, Head(conds), e),
                        w, conds, e)

RECURSIVE FindCase(_, _, _, _, _)

KeyedCase(should, w, obj, cases, k, e) ==
    IF should.error # NoError THEN NoCase(should.error)
    ELSE IF should.value.bool THEN CaseAt(k)
    ELSE FindCase(w, obj, cases, k + 1, e)

\* the first case from k on that has the key and whose conditions hold
FindCase(w, obj, cases, k, e) ==
    IF k > Len(cases) THEN CaseAt(0)
    ELSE IF obj.t \in {"null", "undefined"} THEN NoCase(CannotReadProperty("hasOwnProperty"))
    ELSE IF ~hasOwnProperty(w.instances, obj, cases[k].key)
    THEN FindCase(w, obj, cases, k + 1, e)
    ELSE KeyedCase(shouldExecute(w, cases[k].conditions, e), w, obj, cases, k, e)

SelectFrame(e, stmts, rest, obj, self) ==
    [LoopFrame("select", e, e, stmts, "", rest, self) EXCEPT !.result = obj]

\* the mutant leaves the select after the first case that executes
EnterCaseOnly(w, obj, cases, k, e, self) ==
    Entering(w, SelectFrame(e, cases[k].body, <<>>, obj, self))

EnterCase(w, obj, cases, k, e, self) ==
    Entering(w, SelectFrame(e, cases[k].body, SubSeq(cases, k + 1, Len(cases)), obj, self))

NextCase(w, found, obj, cases, e, self) ==
    IF found.error # NoError THEN Thrown(w, found.error)
    ELSE IF found.index = 0 THEN Outcome(w)
    ELSE EnterCase(w, obj, cases, found.index, e, self)

SelectOn(w, o, s, e, self) ==
    IF o.error # NoError THEN Thrown(w, o.error)
    ELSE NextCase(w, FindCase(w, o.value, s.cases, 1, e), o.value, s.cases, e, self)

ExecuteSelect(w, s, e, self) ==
    SelectOn(w, evaluateExpression(w.envs, w.instances, s.expression, e), s, e, self)

AskWith(w, pr, e, then) ==
    IF pr.error # NoError THEN Thrown(w, pr.error)
    ELSE Waiting(w, AwaitFrame(e, then, Str("line")))

\* evaluateAsk: write the prompt, wait for one line of input
EvaluateAsk(w, node, e, then) ==
    AskWith(w, evaluateExpression(w.envs, w.instances, node.prompt, e), e, then)

\* a member expression statement calls the property when it is a function
CallProperty(w, method, e, label, p) ==
    IF IsFunction(method) THEN Call(w, method, <<>>, e, NoThen, label, p)
    ELSE Outcome(w)

\* the property of a member expression: its name, or the value of obj[expr]
PropertyOf(heap, insts, x, e) ==
    IF x.computed THEN evaluateExpression(heap, insts, x.property, e)
    ELSE Ok(Str(x.property))

MemberStatement(w, m, e, label, p) ==
    IF m.error # NoError THEN Thrown(w, m.error)
    ELSE CallProperty(w, m.value, e, label, p)

Discard(w, r) == IF r.error # NoError THEN Thrown(w, r.error) ELSE Outcome(w)

\* the ExpressionStatement case of evaluateStatement
ExecuteExpressionStatement(w, s, e, label, p) ==
    IF s.expression.type = "MemberExpression"
    THEN MemberStatement(w, MemberResult(w.envs, w.instances,
                                evaluateExpression(w.envs, w.instances, s.expression.object, e),
                                PropertyOf(w.envs, w.instances, s.expression, e)),
                         e, label, p)
    ELSE IF s.expression.type = "CallExpression"
    THEN evaluateCall(w, s.expression, e, NoThen, label, p)
    ELSE IF s.expression.type = "AskExpression"
    THEN EvaluateAsk(w, s.expression, e, NoThen)
    ELSE Discard(w, evaluateExpression(w.envs, w.instances, s.expression, e))

(***************************************************************************)
(* Declarations.                                                           *)
(***************************************************************************)
MethodTable(methods) ==
    [n \in {methods[i].name : i \in DOMAIN methods} |->
        LET i == CHOOSE k \in DOMAIN methods :
                    methods[k].name = n /\ \A j \in DOMAIN methods : methods[j].name = n => j <= k
        IN methods[i]]

MapSet(m, k, v) == [x \in (DOMAIN m) \cup {k} |-> IF x = k THEN v ELSE m[x]]

DefineTask(w, s, e) ==
    Outcome([w EXCEPT !.tasks = Append(@, [node |-> s, env |-> e]),
                      !.envs = EnvSet(@, e, s.name, Binding(Fn(Len(w.tasks) + 1), FALSE))])

DefineGroup(w, s, e, now) ==
    LET def == [name |-> s.name, fields |-> s.fields, methods |-> MethodTable(s.methods),
                implementations |-> <<>>, at |-> now]
    IN Outcome([w EXCEPT !.groups = MapSet(@, s.name, def),
                         !.envs = EnvSet(@, e, s.name, Binding(Ctor(s.name), FALSE))])

DefineBlueprint(w, s, e, now) ==
    Outcome([w EXCEPT !.blueprints =
                MapSet(@, s.name, [name |-> s.name, methods |-> MethodTable(s.methods),
                                   at |-> now])])

\* Map.set on groupDef.implementations: a known blueprint keeps its place
ImplementationsSet(impls, b, methods, now) ==
    LET entry == [blueprint |-> b, methods |-> methods, at |-> now]
        known == {i \in DOMAIN impls : impls[i].blueprint = b}
    IN IF known = {} THEN Append(impls, entry)
       ELSE [i \in DOMAIN impls |-> IF i \in known THEN entry ELSE impls[i]]

\* the mutant re-opens the group: the block's methods go into its method table
ImplementBlueprintIntoMethods(w, s, e, now) ==
    IF s.groupName \notin DOMAIN w.groups THEN Thrown(w, UnknownGroup(s.groupName))
    ELSE Outcome([w EXCEPT !.groups[s.groupName].methods =
                     BindOver(@, MethodTable(s.methods))])

ImplementBlueprint(w, s, e, now) ==
    IF s.groupName \notin DOMAIN w.groups THEN Thrown(w, UnknownGroup(s.groupName))
    ELSE Outcome([w EXCEPT !.groups[s.groupName].implementations =
                     ImplementationsSet(@, s.blueprintName, MethodTable(s.methods), now)])

(***************************************************************************)
(* Capabilities.  The registry holds the four plugins runFlick registers   *)
(* (runner.ts:61-64); registerBuiltins binds a plugin's built-in values.   *)
(***************************************************************************)
RegisteredPlugins == {"web", "files", "time", "random"}

PluginBuiltins(plugin) ==
    CASE plugin = "files" -> {"read", "write", "exists", "listdir"}
      [] plugin = "time" -> {"now", "sleep", "timestamp"}
      [] plugin = "random" -> {"random", "randint", "shuffle", "choice"}
      [] OTHER -> {}

AllBuiltins == UNION {PluginBuiltins(plugin) : plugin \in RegisteredPlugins}

\* the mutant binds the built-ins of every registered plugin at any declare
registerAllBuiltins(heap, e, plugin) ==
    [heap EXCEPT ![e].vars =
        [n \in (DOMAIN @) \cup AllBuiltins |->
            IF n \in AllBuiltins THEN Binding(Builtin(n), FALSE) ELSE @[n]]]

registerBuiltins(heap, e, plugin) ==
    [heap EXCEPT ![e].vars =
        [n \in (DOMAIN @) \cup PluginBuiltins(plugin) |->
            IF n \in PluginBuiltins(plugin) THEN Binding(Builtin(n), FALSE) ELSE @[n]]]

HandleDeclare(w, s, e) ==
    IF s.plugin \notin RegisteredPlugins THEN Thrown(w, UnknownPlugin(s.plugin))
    ELSE Outcome([w EXCEPT !.envs = registerBuiltins(@, e, s.plugin)])

HandleRoute(w, s, e) == Outcome(w)

RespondWith(w, c) ==
    IF c.error # NoError THEN Thrown(w, c.error)
    ELSE IF ~Stringifies(c.value) THEN Thrown(w, CircularStructure)
    ELSE [Outcome(w) EXCEPT !.value = Responded(stringify(c.value))]

\* WebPlugin.execute for a RespondStatement
HandleRespond(w, s, e) ==
    RespondWith(w, evaluateExpression(w.envs, w.instances, s.content, e))

(***************************************************************************)
(* The parser (parser.ts), over the token kinds of the files explored:     *)
(* DECLARE, IDENTIFIER, ROUTE, STRING, ARROW, END, RESPOND, PRINT, EOF.    *)
(* position counts the tokens consumed.  A parsing function returns        *)
(* [error, position, node].  PluginManager.isDeclared and declarePlugin    *)
(* are the membership test and the insertion on the declared set.          *)
(***************************************************************************)
Token(type, value) == [type |-> type, value |-> value]

peek(ts, pos) == IF pos < Len(ts) THEN ts[pos + 1] ELSE ts[Len(ts)]

match(ts, pos, types) == peek(ts, pos).type \in types

\* the constructor keeps every token but the newlines
Parser(ts) == SelectSeq(ts, LAMBDA t : t.type # "NEWLINE")

POk(pos, node) == [error |-> NoError, position |-> pos, node |-> node]
PErr(e, pos) == [error |-> e, position |-> pos, node |-> NoExpr]

isDeclared(declared, plugin) == plugin \in declared

declarePlugin(declared, plugin) == declared \cup {plugin}

\* parseFloat on the one-digit numerals of the files explored
parseFloat(raw) == (CHOOSE d \in 1..10 : <<"0", "1", "2", "3", "4", "5", "6", "7", "8", "9">>[d] = raw) - 1

RECURSIVE parseExpression(_, _)
RECURSIVE ArrayElements(_, _, _)
RECURSIVE ParenArguments(_, _, _)
RECURSIVE Postfix(_, _)

AfterComma(ts, pos) == IF match(ts, pos, {"COMMA"}) THEN pos + 1 ELSE pos

\* expect(type) after a parsed node
ExpectAfter(ts, r, type) ==
    IF r.error # NoError THEN r
    ELSE IF ~match(ts, r.position, {type})
    THEN PErr(Expected(type, peek(ts, r.position).type), r.position)
    ELSE POk(r.position + 1, r.node)

ArrayElementsAfter(ts, r, elements) ==
    IF r.error # NoError THEN r
    ELSE ArrayElements(ts, AfterComma(ts, r.position), Append(elements, r.node))

\* while (!match(RBRACKET)) { elements.push(parseExpression()); a comma is skipped }
ArrayElements(ts, pos, elements) ==
    IF match(ts, pos, {"RBRACKET"}) THEN POk(pos + 1, ArrayLiteral(elements))
    ELSE ArrayElementsAfter(ts, parseExpression(ts, pos), elements)

parsePrimaryExpression(ts, pos) ==
    IF match(ts, pos, {"STRING"}) THEN POk(pos + 1, Literal(Str(peek(ts, pos).value)))
    ELSE IF match(ts, pos, {"NUMBER"})
    THEN POk(pos + 1, Literal(Num(parseFloat(peek(ts, pos).value))))
    ELSE IF match(ts, pos, {"LBRACKET"}) THEN ArrayElements(ts, pos + 1, <<>>)
    ELSE IF match(ts, pos, {"LPAREN"})
    THEN ExpectAfter(ts, parseExpression(ts, pos + 1), "RPAREN")
    ELSE IF match(ts, pos, {"IDENTIFIER"})
    THEN POk(pos + 1, Identifier(peek(ts, pos).value))
    ELSE PErr(UnexpectedToken(peek(ts, pos).value), pos)

ArgumentTokens == {"STRING", "NUMBER", "IDENTIFIER"}

\* the tokens the loop of a call without parentheses names as its stops
Terminators == {"ARROW", "ASSIGN", "EOF", "END", "NEWLINE", "MAYBE", "OTHERWISE"}

RECURSIVE BareArguments(_, _, _)

NextArgument(ts, pos, args) ==
    IF ~match(ts, pos, ArgumentTokens \cup {"COMMA"})
    THEN [position |-> pos, args |-> args]
    ELSE BareArguments(ts, pos, args)

\* the space-separated arguments of a call without parentheses
BareArguments(ts, pos, args) ==
    IF match(ts, pos, ArgumentTokens) /\ ~match(ts, pos, Terminators)
    THEN NextArgument(ts, AfterComma(ts, parsePrimaryExpression(ts, pos).position),
                      Append(args, parsePrimaryExpression(ts, pos).node))
    ELSE [position |-> pos, args |-> args]

BareCall(callee, r) == POk(r.position, CallExpression(callee, r.args))

ParenArgumentsAfter(ts, r, args) ==
    IF r.error # NoError THEN r
    ELSE ParenArguments(ts, AfterComma(ts, r.position), Append(args, r.node))

\* while (!match(RPAREN)) { args.push(parseExpression()); a comma is skipped }
ParenArguments(ts, pos, args) ==
    IF match(ts, pos, {"RPAREN"}) THEN POk(pos + 1, args)
    ELSE ParenArgumentsAfter(ts, parseExpression(ts, pos), args)

ParenCall(callee, r) ==
    IF r.error # NoError THEN r ELSE POk(r.position, CallExpression(callee, r.node))

DotMember(ts, obj, pos) ==
    IF ~match(ts, pos, {"IDENTIFIER"}) THEN PErr(Expected("IDENTIFIER", peek(ts, pos).type), pos)
    ELSE POk(pos + 1, MemberExpression(obj, peek(ts, pos).value))

IndexMember(obj, r) ==
    IF r.error # NoError THEN r ELSE POk(r.position, ComputedMemberExpression(obj, r.node))

\* the while (true) of parsePostfixExpression, expr being r.node
Postfix(ts, r) ==
    IF r.error # NoError THEN r
    ELSE IF match(ts, r.position, {"DOT"})
    THEN Postfix(ts, DotMember(ts, r.node, r.position + 1))
    ELSE IF match(ts, r.position, {"LBRACKET"})
    THEN Postfix(ts, IndexMember(r.node,
                        ExpectAfter(ts, parseExpression(ts, r.position + 1), "RBRACKET")))
    ELSE IF match(ts, r.position, {"LPAREN"})
    THEN Postfix(ts, ParenCall(r.node, ParenArguments(ts, r.position + 1, <<>>)))
    ELSE IF /\ match(ts, r.position, ArgumentTokens)
            /\ r.node.type \in {"Identifier", "MemberExpression"}
    THEN Postfix(ts, BareCall(r.node, BareArguments(ts, r.position, <<>>)))
    ELSE r

parsePostfixExpression(ts, pos) == Postfix(ts, parsePrimaryExpression(ts, pos))

parseExpression(ts, pos) == parsePostfixExpression(ts, pos)

RespondNode(r) ==
    IF r.error # NoError THEN r ELSE POk(r.position, RespondStatement(r.node))

parseRespondStatement(ts, pos) == RespondNode(parseExpression(ts, pos + 1))

PrintNode(r) ==
    IF r.error # NoError THEN r ELSE POk(r.position, PrintStatement(r.node))

parsePrintStatement(ts, pos) == PrintNode(parseExpression(ts, pos + 1))

ExpressionNode(r) ==
    IF r.error # NoError THEN r ELSE POk(r.position, ExpressionStatement(r.node))

parseStatement(ts, pos, declared) ==
    IF match(ts, pos, {"RESPOND"})
    THEN IF ~isDeclared(declared, "web") THEN PErr(FeatureRequires("respond", "web"), pos)
         ELSE parseRespondStatement(ts, pos)
    ELSE IF match(ts, pos, {"PRINT"}) THEN parsePrintStatement(ts, pos)
    ELSE ExpressionNode(parseExpression(ts, pos))

RECURSIVE RouteBody(_, _, _, _)

RouteBodyAfter(r, ts, declared, stmts) ==
    IF r.error # NoError THEN r
    ELSE RouteBody(ts, r.position, declared, Append(stmts, r.node))

\* while (!match(END)) body.push(parseStatement())
RouteBody(ts, pos, declared, stmts) ==
    IF match(ts, pos, {"END"}) THEN POk(pos, stmts)
    ELSE RouteBodyAfter(parseStatement(ts, pos, declared), ts, declared, stmts)

RouteNode(path, r) ==
    IF r.error # NoError THEN r ELSE POk(r.position + 1, RouteStatement(path, r.node))

parseRouteStatement(ts, pos, declared) ==
    IF ~match(ts, pos + 1, {"STRING"})
    THEN PErr(Expected("STRING", peek(ts, pos + 1).type), pos + 1)
    ELSE IF ~match(ts, pos + 2, {"ARROW"})
    THEN PErr(Expected("ARROW", peek(ts, pos + 2).type), pos + 2)
    ELSE RouteNode(peek(ts, pos + 1).value, RouteBody(ts, pos + 3, declared, <<>>))

\* the mutant parses a route without asking for the capability
parseTopLevelStatementUngated(ts, pos, declared) ==
    IF match(ts, pos, {"ROUTE"}) THEN parseRouteStatement(ts, pos, declared)
    ELSE parseStatement(ts, pos, declared)

parseTopLevelStatement(ts, pos, declared) ==
    IF match(ts, pos, {"ROUTE"})
    THEN IF ~isDeclared(declared, "web") THEN PErr(FeatureRequires("route", "web"), pos)
         ELSE parseRouteStatement(ts, pos, declared)
    ELSE parseStatement(ts, pos, declared)

\* the mutant builds the node and leaves the tokens where they are
parseDeclareStatementInPlace(ts, pos) ==
    IF ~match(ts, pos + 1, {"IDENTIFIER"})
    THEN PErr(Expected("IDENTIFIER", peek(ts, pos + 1).type), pos + 1)
    ELSE POk(pos, DeclareStatement(peek(ts, pos + 1).value))

parseDeclareStatement(ts, pos) ==
    IF ~match(ts, pos + 1, {"IDENTIFIER"})
    THEN PErr(Expected("IDENTIFIER", peek(ts, pos + 1).type), pos + 1)
    ELSE POk(pos + 2, DeclareStatement(peek(ts, pos + 1).value))

\* the mutant takes a declare wherever parse() meets one
InDeclaresAnywhere == match(tokens, position, {"DECLARE"})

\* parse() is in its first loop: only declare statements so far, and another
InDeclares ==
    /\ match(tokens, position, {"DECLARE"})
    /\ \A i \in DOMAIN body : body[i].type = "DeclareStatement"

\* runFlick's catch: the diagnostic, then process.exit(1)
ParseFails(e) ==
    /\ parseResult' = e
    /\ status' = "failed"
    /\ error' = e
    /\ exitCode' = 1
    /\ UNCHANGED <<position, body, declaredPlugins>>

ParseAdvances(r) ==
    /\ position' = r.position
    /\ body' = Append(body, r.node)
    /\ UNCHANGED <<parseResult, status, error, exitCode>>

interpreterVars ==
    <<programAST, envs, tasks, groups, blueprints, instances, output, evals,
      hooksRun, raised, requests>>

\* one turn of parse()'s first loop
ParseDeclare(r) ==
    IF r.error # NoError THEN ParseFails(r.error)
    ELSE /\ ParseAdvances(r)
         /\ declaredPlugins' = declarePlugin(declaredPlugins, r.node.plugin)

parseDeclare ==
    /\ status = "parsing"
    /\ InDeclares
    /\ ParseDeclare(parseDeclareStatement(tokens, position))
    /\ UNCHANGED <<family, window, source, tokens, interpreterVars>>

\* one turn of parse()'s second loop
ParseTopLevel(r) ==
    IF r.error # NoError THEN ParseFails(r.error)
    ELSE ParseAdvances(r) /\ UNCHANGED declaredPlugins

parseTopLevel ==
    /\ status = "parsing"
    /\ ~InDeclares
    /\ ~match(tokens, position, {"EOF"})
    /\ ParseTopLevel(parseTopLevelStatement(tokens, position, declaredPlugins))
    /\ UNCHANGED <<family, window, source, tokens, interpreterVars>>

\* parse() returns the Program; runFlick goes on to interpret it
parseProgram ==
    /\ status = "parsing"
    /\ ~InDeclares
    /\ match(tokens, position, {"EOF"})
    /\ parseResult' = ParseOk
    /\ status' = "running"
    /\ UNCHANGED <<family, window, source, tokens, position, body, declaredPlugins, error, exitCode,
                   interpreterVars>>

(***************************************************************************)
(* The source files given to the parser: up to MaxLines statements, each   *)
(* well formed by itself, in any order.                                    *)
(***************************************************************************)
DeclareLine(plugin) == <<Token("DECLARE", "declare"), Token("IDENTIFIER", plugin)>>
PrintLine(text) == <<Token("PRINT", "print"), Token("STRING", text)>>
RespondLine(text) == <<Token("RESPOND", "respond"), Token("STRING", text)>>
RouteLine(path, stmts) ==
    <<Token("ROUTE", "route"), Token("STRING", path), Token("ARROW", "=>")>>
        \o stmts \o <<Token("END", "end")>>

Lines ==
    { DeclareLine("web"), DeclareLine("time"), PrintLine("a"), RespondLine("a"),
      RouteLine("/", RespondLine("a")), RouteLine("/", PrintLine("a")) }

RECURSIVE Flatten(_)
Flatten(ls) == IF ls = <<>> THEN <<>> ELSE Head(ls) \o Flatten(Tail(ls))

Files ==
    { Flatten(ls) \o <<Token("EOF", "")>> :
        ls \in UNION {[1..n -> Lines] : n \in 0..MaxLines} }

(***************************************************************************)
(* The files of the calls family: lines of calls without parentheses, a    *)
(* name alone, a print and a route whose body is a call, each line ended   *)
(* by the NEWLINE token of the lexer.                                      *)
(***************************************************************************)
Name(n) == Token("IDENTIFIER", n)
Comma == Token("COMMA", ",")
Newline == Token("NEWLINE", "\n")

CallLines ==
    { <<Name("f"), Token("NUMBER", "1")>>,
      <<Name("g"), Token("STRING", "a"), Comma, Name("x")>>,
      <<Name("h")>>,
      PrintLine("a"),
      DeclareLine("web"),
      RouteLine("/", <<Name("f"), Token("NUMBER", "2")>>) }

(***************************************************************************)
(* The files of the tokens family: every sequence of at most MaxTokens     *)
(* tokens of the expression grammar, then EOF.                             *)
(***************************************************************************)
TokenAlphabet ==
    { Name("x"), Token("STRING", "a"), Token("NUMBER", "1"), Comma, Token("DOT", "."),
      Token("LPAREN", "("), Token("RPAREN", ")"), Token("LBRACKET", "["),
      Token("RBRACKET", "]"), Token("END", "end") }

TokenFiles ==
    { ts \o <<Token("EOF", "")>> :
        ts \in UNION {[1..n -> TokenAlphabet] : n \in 0..MaxTokens} }

EndLine(l) == l \o <<Newline>>

CallFiles ==
    { Flatten([i \in DOMAIN ls |-> EndLine(ls[i])]) \o <<Token("EOF", "")>> :
        ls \in UNION {[1..n -> CallLines] : n \in 1..MaxLines} }

(***************************************************************************)
(* The families of source programs explored.  A program is any sequence of *)
(* at most MaxStmts statements of its family; the parser family runs the   *)
(* programs the parser accepts among Files.                                *)
(***************************************************************************)
Lit(n) == Literal(Num(n))
Text(s) == Literal(Str(s))
Id(n) == Identifier(n)
Yes == Literal(Bool(TRUE))
Field(n, m, init) == [name |-> n, mutable |-> m, initializer |-> init]
Signature(n) == [type |-> "TaskSignature", name |-> n, parameters |-> <<>>]
Add(n, k) == Assignment(Id(n), BinaryExpression("+", Id(n), Lit(k)))
Invoke(obj, method) == ExpressionStatement(MemberExpression(Id(obj), method))

ScopeStatements ==
    { VariableDeclaration("x", FALSE, Lit(1)),
      VariableDeclaration("x", TRUE, Lit(1)),
      Assignment(Id("x"), Lit(2)),
      Assignment(Id("x"), Id("y")),
      PrintStatement(Id("x")),
      IfStatement(<<Branch(Yes, <<VariableDeclaration("x", TRUE, Lit(3))>>)>>),
      IfStatement(<<Branch(Yes, <<Assignment(Id("x"), Lit(2))>>)>>),
      EachLoop("i", ArrayLiteral(<<Lit(1), Lit(2)>>),
               <<VariableDeclaration("x", TRUE, Id("i")), Assignment(Id("x"), Lit(0))>>),
      MarchLoop("x", Lit(1), Lit(2), <<Assignment(Id("x"), Lit(2))>>),
      TaskDeclaration("f", <<"a">>,
                      <<VariableDeclaration("x", FALSE, Id("a")), PrintStatement(Id("x"))>>),
      TaskDeclaration("g", <<>>, <<Assignment(Id("x"), Lit(2))>>),
      ExpressionStatement(CallExpression(Id("f"), <<Lit(3)>>)),
      ExpressionStatement(CallExpression(Id("g"), <<>>)),
      Assignment(Id("x"), CallExpression(Id("f"), <<Lit(3)>>)) }

RecordStatements ==
    { GroupDeclaration("G",
            <<Field("n", TRUE, NoExpr), Field("m", TRUE, Lit(7)), Field("k", TRUE, NoExpr)>>,
            <<TaskDeclaration("inc", <<>>, <<Add("n", 1)>>)>>),
      GroupDeclaration("G",
            <<Field("n", TRUE, NoExpr)>>,
            <<TaskDeclaration("inc", <<>>, <<Assignment(Id("n"), Lit(0))>>)>>),
      BlueprintDeclaration("B", <<Signature("bump")>>),
      BlueprintDeclaration("B", <<Signature("bump"), Signature("reset")>>),
      DoImplementation("B", "G", <<TaskDeclaration("bump", <<>>, <<Add("n", 10)>>)>>),
      VariableDeclaration("a", TRUE, CallExpression(Id("G"), <<Lit(1), Lit(2)>>)),
      VariableDeclaration("b", TRUE, CallExpression(Id("G"), <<Lit(3)>>)),
      Invoke("a", "inc"),
      IfStatement(<<Branch(Yes, <<Invoke("a", "inc"), Invoke("a", "bump")>>)>>),
      Assignment(MemberExpression(Id("a"), "n"), Lit(5)),
      PrintStatement(MemberExpression(Id("a"), "n")) }

AsyncStatements ==
    { TaskDeclaration("t", <<>>,
            <<ExpressionStatement(AskExpression(Text("?"))),
              PrintStatement(Text("late")),
              PrintStatement(Id("zz"))>>),
      GroupDeclaration("H", <<Field("x", TRUE, CallExpression(Id("t"), <<>>))>>, <<>>),
      VariableDeclaration("h", TRUE, CallExpression(Id("H"), <<>>)),
      PrintStatement(Text("b")),
      ExpressionStatement(CallExpression(Id("t"), <<>>)) }

WebStatements ==
    { DeclareStatement("web"),
      DeclareStatement("time"),
      VariableDeclaration("n", TRUE, Lit(0)),
      RouteStatement("/", <<Add("n", 1),
                            ExpressionStatement(CallExpression(Id("sleep"), <<Lit(1)>>)),
                            RespondStatement(Id("n"))>>),
      RouteStatement("/e", <<PrintStatement(Id("zz"))>>),
      PrintStatement(Id("n")) }

\* assume c => print "A" maybe d => print "B" [otherwise => print "C"] end
Chain(otherwise) ==
    IfStatement(<<Branch(Id("c"), <<PrintStatement(Text("A"))>>),
                  Branch(Id("d"), <<PrintStatement(Text("B"))>>)>> \o otherwise)

BranchStatements ==
    { VariableDeclaration("c", TRUE, Yes),
      VariableDeclaration("c", TRUE, Literal(Bool(FALSE))),
      VariableDeclaration("d", TRUE, Lit(1)),
      VariableDeclaration("d", TRUE, Literal(Null)),
      Chain(<<>>),
      Chain(<<Branch(NoExpr, <<PrintStatement(Text("C"))>>)>>) }

(***************************************************************************)
(* The select family: the configuration example of the language's design   *)
(* notes, with the guard reading the key through the subject and with the  *)
(* guard naming the key as a variable.                                     *)
(***************************************************************************)
ModeOf(obj) == ComputedMemberExpression(Id(obj), Text("mode"))
Equals(l, r) == BinaryExpression("==", l, r)

\* select config => when "mode" => suppose mode == "production" => print "P"
\*                  when "mode" => suppose mode == "debug" => print "X" end
SelectByName ==
    SelectStatement(Id("config"),
        <<Case("mode", <<Equals(Id("mode"), Text("production"))>>,
               <<PrintStatement(Text("P"))>>),
          Case("mode", <<Equals(Id("mode"), Text("debug"))>>,
               <<PrintStatement(Text("X"))>>)>>)

\* the same guards written config["mode"], then an unguarded "debug" case
\* and an unguarded "mode" case
SelectBySubject ==
    SelectStatement(Id("config"),
        <<Case("mode", <<Equals(ModeOf("config"), Text("production"))>>,
               <<PrintStatement(Text("P"))>>),
          Case("mode", <<Equals(ModeOf("config"), Text("debug"))>>,
               <<PrintStatement(Text("X"))>>),
          Case("debug", <<>>, <<PrintStatement(Text("D"))>>),
          Case("mode", <<>>, <<PrintStatement(Text("M"))>>)>>)

Production == ObjectLiteral(<<Property("mode", Text("production"))>>)
Debugging == ObjectLiteral(<<Property("mode", Text("debug")), Property("debug", Yes)>>)

SelectStatements ==
    { VariableDeclaration("config", TRUE, Production),
      VariableDeclaration("config", TRUE, Debugging),
      VariableDeclaration("mode", TRUE, Text("production")),
      SelectByName,
      SelectBySubject }

(***************************************************************************)
(* The each family: each name in ["Alice", "Bob"] => print name end, and   *)
(* the loop over a variable holding a list, an empty list or a string.     *)
(***************************************************************************)
Names == ArrayLiteral(<<Text("Alice"), Text("Bob")>>)

EachStatements ==
    { VariableDeclaration("xs", TRUE, Names),
      VariableDeclaration("xs", TRUE, ArrayLiteral(<<>>)),
      VariableDeclaration("xs", TRUE, Text("Alice")),
      EachLoop("name", Names, <<PrintStatement(Id("name"))>>),
      EachLoop("name", Id("xs"), <<PrintStatement(Id("name"))>>) }

(***************************************************************************)
(* The march family: march i from 1 to 3 => print "Number: " + i end, and  *)
(* a loop to the variable b whose body sets b to 0.                        *)
(***************************************************************************)
MarchToThree ==
    MarchLoop("i", Lit(1), Lit(3),
              <<PrintStatement(BinaryExpression("+", Text("Number: "), Id("i")))>>)

MarchToB ==
    MarchLoop("i", Lit(1), Id("b"),
              <<PrintStatement(Id("i")), Assignment(Id("b"), Lit(0))>>)

MarchStatements ==
    { VariableDeclaration("b", TRUE, Lit(3)),
      VariableDeclaration("b", TRUE, Lit(0)),
      MarchToThree,
      MarchToB }

(***************************************************************************)
(* The plus family: free r = L + R for operands of every type a literal    *)
(* can have.                                                               *)
(***************************************************************************)
Operands ==
    { Lit(1), Lit(2), Text("a"), Yes, Literal(Null),
      ArrayLiteral(<<Lit(1), Lit(2)>>),
      ObjectLiteral(<<Property("k", Lit(1))>>) }

PlusStatements ==
    { VariableDeclaration("r", TRUE, BinaryExpression("+", l, r)) : l, r \in Operands }

(***************************************************************************)
(* The print family: a task f that prints, an object o holding f under     *)
(* "g", and prints of several expressions: literals, the identifier f, the *)
(* member expression o.g.                                                  *)
(***************************************************************************)
PrintLiterals == PrintAll(<<Text("a"), Lit(1), Yes>>)
PrintTask == PrintAll(<<Text("r="), Id("f"), Text("!")>>)
PrintMember == PrintAll(<<Text("g="), MemberExpression(Id("o"), "g")>>)

PrintStatements ==
    { TaskDeclaration("f", <<>>, <<PrintStatement(Text("in"))>>),
      VariableDeclaration("o", TRUE, ObjectLiteral(<<Property("g", Id("f"))>>)),
      PrintLiterals,
      PrintTask,
      PrintMember }

(***************************************************************************)
(* The counter family: the Counter group of the README, its method ending  *)
(* in give count (the parser has no give statement: it is a bare call of   *)
(* the name give) or in the expression count; one instance, and the        *)
(* results of two calls of increment.                                      *)
(***************************************************************************)
GiveCount == ExpressionStatement(CallExpression(Id("give"), <<Id("count")>>))

Counter(last) ==
    GroupDeclaration("Counter", <<Field("count", TRUE, Lit(0))>>,
                     <<TaskDeclaration("increment", <<>>, <<Add("count", 1), last>>)>>)

Increment == CallExpression(MemberExpression(Id("counter"), "increment"), <<>>)

CounterStatements ==
    { Counter(GiveCount),
      Counter(ExpressionStatement(Id("count"))),
      VariableDeclaration("counter", TRUE, CallExpression(Id("Counter"), <<>>)),
      VariableDeclaration("first", TRUE, Increment),
      VariableDeclaration("second", TRUE, Increment) }

(***************************************************************************)
(* The empty family: assume body => print "Has data" end for body an       *)
(* empty string, an empty list, an empty object, a non-empty string.       *)
(***************************************************************************)
HasData == IfStatement(<<Branch(Id("body"), <<PrintStatement(Text("Has data"))>>)>>)

EmptyStatements ==
    { VariableDeclaration("body", TRUE, Text("")),
      VariableDeclaration("body", TRUE, ArrayLiteral(<<>>)),
      VariableDeclaration("body", TRUE, ObjectLiteral(<<>>)),
      VariableDeclaration("body", TRUE, Text("data")),
      HasData }

(***************************************************************************)
(* The bare family: task sayHello => print "Hello!" end, then the name of  *)
(* the task as a statement of its own, or the call sayHello().             *)
(***************************************************************************)
SayHello == TaskDeclaration("sayHello", <<>>, <<PrintStatement(Text("Hello!"))>>)

BareStatements ==
    { SayHello,
      VariableDeclaration("sayHello", TRUE, Text("Hello!")),
      ExpressionStatement(Id("sayHello")),
      ExpressionStatement(CallExpression(Id("sayHello"), <<>>)) }

(***************************************************************************)
(* The method family: a group P with field n and method set(v) whose body  *)
(* is n := v, print n, print g; globals n, v and g; one instance, a call   *)
(* of set and a print of the global n.                                     *)
(***************************************************************************)
SetN ==
    TaskDeclaration("set", <<"v">>,
        <<Assignment(Id("n"), Id("v")), PrintStatement(Id("n")), PrintStatement(Id("g"))>>)

MethodStatements ==
    { GroupDeclaration("P", <<Field("n", TRUE, NoExpr)>>, <<SetN>>),
      VariableDeclaration("n", TRUE, Lit(9)),
      VariableDeclaration("v", TRUE, Lit(8)),
      VariableDeclaration("g", TRUE, Lit(7)),
      VariableDeclaration("a", TRUE, CallExpression(Id("P"), <<Lit(1)>>)),
      ExpressionStatement(CallExpression(MemberExpression(Id("a"), "set"), <<Lit(2)>>)),
      PrintStatement(Id("n")) }

(***************************************************************************)
(* The respond family: routes whose body responds twice around a print,    *)
(* responds inside an assume, only prints, or responds with "".            *)
(***************************************************************************)
RespondStatements ==
    { DeclareStatement("web"),
      RouteStatement("/a", <<RespondStatement(Text("a")), PrintStatement(Text("p")),
                             RespondStatement(Text("b"))>>),
      RouteStatement("/b", <<IfStatement(<<Branch(Yes, <<RespondStatement(Text("a"))>>)>>)>>),
      RouteStatement("/c", <<PrintStatement(Text("p"))>>),
      RouteStatement("/d", <<RespondStatement(Text(""))>>) }

Alphabet ==
    CASE family = "scope" -> ScopeStatements
      [] family = "respond" -> RespondStatements
      [] family = "method" -> MethodStatements
      [] family = "bare" -> BareStatements
      [] family = "empty" -> EmptyStatements
      [] family = "counter" -> CounterStatements
      [] family = "print" -> PrintStatements
      [] family = "plus" -> PlusStatements
      [] family = "march" -> MarchStatements
      [] family = "each" -> EachStatements
      [] family = "select" -> SelectStatements
      [] family = "branches" -> BranchStatements
      [] family = "records" -> RecordStatements
      [] family = "async" -> AsyncStatements
      [] family = "web" -> WebStatements
      [] OTHER -> {}

(***************************************************************************)
(* The steps of an evaluation p: the cases of evaluateStatement.           *)
(***************************************************************************)
declareVariable(p) ==
    \E s \in CurrentStmts(p, Alphabet) :
        /\ s.type = "VariableDeclaration"
        /\ Fetch(p, s)
        /\ Commit(p, DeclareVariable(World, s, TopFrame(p).env, Label(p), p), Stepped(p))
        /\ UNCHANGED declaredPlugins

assignVariable(p) ==
    \E s \in CurrentStmts(p, Alphabet) :
        /\ s.type = "Assignment"
        /\ Fetch(p, s)
        /\ Commit(p, AssignVariable(World, s, TopFrame(p).env, Label(p), p), Stepped(p))
        /\ UNCHANGED declaredPlugins

executePrint(p) ==
    \E s \in CurrentStmts(p, Alphabet) :
        /\ s.type = "PrintStatement"
        /\ Fetch(p, s)
        /\ Commit(p, ExecutePrint(World, s, TopFrame(p).env, Label(p), p), Stepped(p))
        /\ UNCHANGED declaredPlugins

executeIf(p) ==
    \E s \in CurrentStmts(p, Alphabet) :
        /\ s.type = "IfStatement"
        /\ Fetch(p, s)
        /\ Commit(p, ExecuteIf(World, s, TopFrame(p).env, TopFrame(p).self), Stepped(p))
        /\ UNCHANGED declaredPlugins

executeSelect(p) ==
    \E s \in CurrentStmts(p, Alphabet) :
        /\ s.type = "SelectStatement"
        /\ Fetch(p, s)
        /\ Commit(p, ExecuteSelect(World, s, TopFrame(p).env, TopFrame(p).self), Stepped(p))
        /\ UNCHANGED declaredPlugins

executeEachLoop(p) ==
    \E s \in CurrentStmts(p, Alphabet) :
        /\ s.type = "EachLoop"
        /\ Fetch(p, s)
        /\ Commit(p, ExecuteEachLoop(World, s, TopFrame(p).env, TopFrame(p).self),
                  Stepped(p))
        /\ UNCHANGED declaredPlugins

executeMarchLoop(p) ==
    \E s \in CurrentStmts(p, Alphabet) :
        /\ s.type = "MarchLoop"
        /\ Fetch(p, s)
        /\ Commit(p, ExecuteMarchLoop(World, s, TopFrame(p).env, TopFrame(p).self),
                  Stepped(p))
        /\ UNCHANGED declaredPlugins

executeExpressionStatement(p) ==
    \E s \in CurrentStmts(p, Alphabet) :
        /\ s.type = "ExpressionStatement"
        /\ Fetch(p, s)
        /\ Commit(p, ExecuteExpressionStatement(World, s, TopFrame(p).env, Label(p), p),
                  Stepped(p))
        /\ UNCHANGED declaredPlugins

defineTask(p) ==
    \E s \in CurrentStmts(p, Alphabet) :
        /\ s.type = "TaskDeclaration"
        /\ Fetch(p, s)
        /\ Commit(p, DefineTask(World, s, TopFrame(p).env), Stepped(p))
        /\ UNCHANGED declaredPlugins

defineGroup(p) ==
    \E s \in CurrentStmts(p, Alphabet) :
        /\ s.type = "GroupDeclaration"
        /\ Fetch(p, s)
        /\ Commit(p, DefineGroup(World, s, TopFrame(p).env, Label(p)), Stepped(p))
        /\ UNCHANGED declaredPlugins

defineBlueprint(p) ==
    \E s \in CurrentStmts(p, Alphabet) :
        /\ s.type = "BlueprintDeclaration"
        /\ Fetch(p, s)
        /\ Commit(p, DefineBlueprint(World, s, TopFrame(p).env, Label(p)), Stepped(p))
        /\ UNCHANGED declaredPlugins

implementBlueprint(p) ==
    \E s \in CurrentStmts(p, Alphabet) :
        /\ s.type = "DoImplementation"
        /\ Fetch(p, s)
        /\ Commit(p, ImplementBlueprint(World, s, TopFrame(p).env, Label(p)), Stepped(p))
        /\ UNCHANGED declaredPlugins

\* the parser has already declared the plugin of a statement it produced
handleDeclare(p) ==
    \E s \in CurrentStmts(p, Alphabet) :
        /\ s.type = "DeclareStatement"
        /\ Fetch(p, s)
        /\ Commit(p, HandleDeclare(World, s, TopFrame(p).env), Stepped(p))
        /\ declaredPlugins' = declarePlugin(declaredPlugins, s.plugin)

handleRoute(p) ==
    \E s \in CurrentStmts(p, Alphabet) :
        /\ s.type = "RouteStatement"
        /\ Fetch(p, s)
        /\ Commit(p, HandleRoute(World, s, TopFrame(p).env), Stepped(p))
        /\ UNCHANGED declaredPlugins

handleRespond(p) ==
    \E s \in CurrentStmts(p, Alphabet) :
        /\ s.type = "RespondStatement"
        /\ Fetch(p, s)
        /\ Commit(p, HandleRespond(World, s, TopFrame(p).env), Stepped(p))
        /\ UNCHANGED declaredPlugins

\* a task, a method or a wait has finished: the caller takes the result
returnFromTask(p) ==
    /\ AtEnd(p, {"task", "method", "await"})
    /\ UNCHANGED programAST
    /\ Commit(p, ApplyThen(World, TopFrame(p).then, TopFrame(p).outer,
                           TopFrame(p).result, Label(p), p), Popped(p))
    /\ UNCHANGED declaredPlugins

\* the body of a branch has finished
endBranch(p) ==
    /\ AtEnd(p, {"if"})
    /\ UNCHANGED programAST
    /\ Commit(p, Outcome(World), Popped(p))
    /\ UNCHANGED declaredPlugins

\* the mutant binds the next item in the Environment of the iteration before
NextItemSameEnvironment(w, f) ==
    IF f.items = <<>> THEN Outcome(w)
    ELSE Entering([w EXCEPT !.envs[f.env].vars =
                      VarsSet(@, f.variable, Binding(Head(f.items), FALSE))],
                  [f EXCEPT !.pc = 1, !.items = Tail(f.items)])

NextItem(w, f) ==
    IF f.items = <<>> THEN Outcome(w)
    ELSE Entering([w EXCEPT !.envs =
                      Append(@, LoopEnvironment(f.outer, f.variable, Head(f.items)))],
                  [f EXCEPT !.env = Len(w.envs) + 1, !.pc = 1, !.items = Tail(f.items)])

\* the body of a loop has finished: the next item gets a fresh Environment
nextIteration(p) ==
    /\ AtEnd(p, {"each", "march"})
    /\ UNCHANGED programAST
    /\ Commit(p, NextItem(World, TopFrame(p)), Popped(p))
    /\ UNCHANGED declaredPlugins

\* the body of a case has finished: the cases after it are considered
nextCase(p) ==
    /\ AtEnd(p, {"select"})
    /\ UNCHANGED programAST
    /\ Commit(p, NextCase(World,
                          FindCase(World, TopFrame(p).result, TopFrame(p).items, 1,
                                   TopFrame(p).env),
                          TopFrame(p).result, TopFrame(p).items, TopFrame(p).env,
                          TopFrame(p).self),
              Popped(p))
    /\ UNCHANGED declaredPlugins

(***************************************************************************)
(* The event loop.  A timer, a line of input or an HTTP request is served  *)
(* only when no evaluation has a step left to run.                         *)
(***************************************************************************)
Idle == \A q \in DOMAIN evals : evals[q].state # "running"

\* the timer of sleep fires, or the line ask waits for arrives
wake(p) ==
    /\ Alive
    /\ Idle
    /\ evals[p].state = "suspended"
    /\ evals' = [evals EXCEPT ![p].state = "running"]
    /\ UNCHANGED <<family, window, programAST, envs, tasks, groups, blueprints, instances,
                   output, status, error, exitCode, declaredPlugins, hooksRun, raised,
                   requests, parserVars>>

(***************************************************************************)
(* interpret: after the last statement the file-complete hooks run.        *)
(***************************************************************************)
\* context = { declaredPlugins: getDeclaredPlugins(), env: this.globalEnv }
PluginContext == [declaredPlugins |-> declaredPlugins, env |-> 1]

\* the mutant runs the hooks while a statement is still being evaluated
ProgramStarted == evals[1].state = "running"

\* the for loop over ast.body has ended: no statement is left or in progress
ProgramEvaluated ==
    /\ evals[1].state = "running"
    /\ TopFrame(1).kind = "program"
    /\ FromSource => Len(programAST) = Len(body)

runFileCompleteHooks ==
    /\ status = "running"
    /\ ProgramEvaluated
    /\ status' = "complete"
    /\ hooksRun' = Append(hooksRun, PluginContext)
    /\ evals' = [evals EXCEPT ![1].state = "done"]
    /\ UNCHANGED <<family, window, programAST, envs, tasks, groups, blueprints, instances,
                   output, error, exitCode, declaredPlugins, raised, requests,
                   parserVars>>

(***************************************************************************)
(* WebPlugin.onFileComplete: the routes collected from the Program, and    *)
(* the server's request handler.                                           *)
(***************************************************************************)
RoutePaths ==
    {programAST[i].path : i \in {j \in DOMAIN programAST :
                                    programAST[j].type = "RouteStatement"}}

\* routes.set(node.path, node): the last route of a path is the one kept
RouteIndex(path) ==
    CHOOSE i \in DOMAIN programAST :
        /\ programAST[i].type = "RouteStatement"
        /\ programAST[i].path = path
        /\ \A j \in DOMAIN programAST :
              (programAST[j].type = "RouteStatement" /\ programAST[j].path = path)
                  => j <= i

\* the handler evaluates the route body in context.env
Handler(i) ==
    Evaluation("handler",
               <<Frame("handler", hooksRun[1].env, 0, programAST[i].body, NoThen, 0)>>, i)

receiveRequest ==
    /\ status = "complete"
    /\ Idle
    /\ requests < MaxRequests
    /\ \E path \in RoutePaths : evals' = Append(evals, Handler(RouteIndex(path)))
    /\ requests' = requests + 1
    /\ UNCHANGED <<family, window, programAST, envs, tasks, groups, blueprints, instances,
                   output, status, error, exitCode, declaredPlugins, hooksRun, raised,
                   parserVars>>

\* res.end(responseContent || 'OK')
sendResponse(p) ==
    /\ AtEnd(p, {"handler"})
    /\ evals' = [evals EXCEPT ![p].stack = <<>>,
                              ![p].state = "done",
                              ![p].response = IF @ = "" THEN "OK" ELSE @]
    /\ UNCHANGED <<family, window, programAST, envs, tasks, groups, blueprints, instances,
                   output, status, error, exitCode, declaredPlugins, hooksRun, raised,
                   requests, parserVars>>

(***************************************************************************)
(* The promise of a task started without await has nobody to reject to:    *)
(* the runtime may end the process on the unhandled rejection.             *)
(***************************************************************************)
RejectionOf(p) == raised[CHOOSE i \in DOMAIN raised : raised[i].eval = p].error

unhandledRejection(p) ==
    /\ Alive
    /\ Idle
    /\ evals[p].kind = "detached"
    /\ evals[p].state = "rejected"
    /\ status' = "failed"
    /\ error' = RejectionOf(p)
    /\ exitCode' = 1
    /\ UNCHANGED <<family, window, programAST, envs, tasks, groups, blueprints, instances,
                   output, evals, declaredPlugins, hooksRun, raised, requests,
                   parserVars>>

(***************************************************************************)
(* The WindowManager (interpreter.ts 731-1700), as far as button clicks    *)
(* go.  A button is [file, isExecuting, timer, pending]: whether its       *)
(* callback file exists, the flag of pollForCallback's closure, whether a  *)
(* setTimeout(checkFile) is outstanding, and the invocations of its        *)
(* callback whose promise has not settled.  Buttons are numbered by        *)
(* nextId, which only grows.  The window process writes the callback file  *)
(* on a click (main script, ipcMain.on('button-click')).                   *)
(***************************************************************************)
Button == [file |-> FALSE, isExecuting |-> FALSE, timer |-> TRUE, pending |-> 0]

\* the mutant polls without the isExecuting flag
CheckFileUnguarded(btn, alive, promise) ==
    IF btn.file
    THEN [btn EXCEPT !.file = FALSE,
                     !.isExecuting = promise,
                     !.pending = IF promise THEN @ + 1 ELSE @,
                     !.timer = alive]
    ELSE [btn EXCEPT !.timer = alive]

\* one run of checkFile; promise: the callback returns a promise, else it
\* has returned or thrown by the time checkFile goes on
CheckFile(btn, alive, promise) ==
    IF btn.isExecuting THEN [btn EXCEPT !.timer = TRUE]
    ELSE IF btn.file
    THEN [btn EXCEPT !.file = FALSE,
                     !.isExecuting = promise,
                     !.pending = IF promise THEN @ + 1 ELSE @,
                     !.timer = alive]
    ELSE [btn EXCEPT !.timer = alive]

WindowIdle ==
    UNCHANGED <<family, programAST, envs, tasks, groups, blueprints, instances, output,
                evals, status, error, exitCode, declaredPlugins, hooksRun, raised,
                requests, parserVars>>

\* WindowManager.open spawns the window process unless there is one
open ==
    /\ family = "window"
    /\ ~window.process
    /\ ~window.closed
    /\ window' = [window EXCEPT !.process = TRUE]
    /\ WindowIdle

\* WindowManager.close: the process is killed and forgotten; its exit event
\* ends the program (process.exit), so no window is opened after it
close ==
    /\ family = "window"
    /\ window.process
    /\ window' = [window EXCEPT !.process = FALSE, !.closed = TRUE]
    /\ WindowIdle

\* WindowManager.button with a callback: pollForCallback sets the first timer
button ==
    /\ family = "window"
    /\ Len(window.buttons) < MaxButtons
    /\ window' = [window EXCEPT !.buttons = Append(@, Button)]
    /\ WindowIdle

\* the user clicks button b: the window process writes its callback file
click(b) ==
    /\ family = "window"
    /\ window.process
    /\ window' = [window EXCEPT !.buttons[b].file = TRUE]
    /\ WindowIdle

\* a timer of button b fires
checkFile(b) ==
    /\ family = "window"
    /\ window.buttons[b].timer
    /\ window.buttons[b].pending < MaxPending
    /\ \E promise \in BOOLEAN :
          window' = [window EXCEPT !.buttons[b] = CheckFile(@, window.process, promise)]
    /\ WindowIdle

\* the promise of an invocation of b's callback resolves or rejects
settle(b) ==
    /\ family = "window"
    /\ window.buttons[b].pending > 0
    /\ window' = [window EXCEPT !.buttons[b].pending = @ - 1,
                                !.buttons[b].isExecuting = FALSE]
    /\ WindowIdle

Families == {"scope", "records", "async", "web", "parser", "branches", "select", "each", "march", "plus",
             "print", "counter", "empty", "bare", "calls",
             "tokens", "method", "respond", "window"}

Init ==
    /\ family \in Families
    /\ source \in CASE family = "parser" -> Files
                   [] family = "calls" -> CallFiles
                   [] family = "tokens" -> TokenFiles
                   [] OTHER -> {<<>>}
    /\ tokens = Parser(source)
    /\ position = 0
    /\ body = <<>>
    /\ parseResult = IF FromSource THEN Parsing ELSE ParseOk
    /\ status = IF FromSource THEN "parsing" ELSE "running"
    /\ programAST = <<>>
    /\ envs = <<NewEnvironment(0)>>
    /\ tasks = <<>>
    /\ groups = <<>>
    /\ blueprints = <<>>
    /\ instances = <<>>
    /\ output = <<>>
    /\ evals = <<Evaluation("main", <<Frame("program", 1, 0, <<>>, NoThen, 0)>>, 0)>>
    /\ error = NoError
    /\ exitCode = 0
    /\ declaredPlugins = {}
    /\ hooksRun = <<>>
    /\ raised = <<>>
    /\ requests = 0
    /\ window = [process |-> FALSE, closed |-> FALSE, buttons |-> <<>>]

Next ==
    \/ parseDeclare
    \/ parseTopLevel
    \/ parseProgram
    \/ \E p \in DOMAIN evals :
          \/ declareVariable(p)
          \/ assignVariable(p)
          \/ executePrint(p)
          \/ executeIf(p)
          \/ executeSelect(p)
          \/ nextCase(p)
          \/ executeEachLoop(p)
          \/ executeMarchLoop(p)
          \/ executeExpressionStatement(p)
          \/ defineTask(p)
          \/ defineGroup(p)
          \/ defineBlueprint(p)
          \/ implementBlueprint(p)
          \/ handleDeclare(p)
          \/ handleRoute(p)
          \/ handleRespond(p)
          \/ returnFromTask(p)
          \/ endBranch(p)
          \/ nextIteration(p)
          \/ wake(p)
          \/ sendResponse(p)
          \/ unhandledRejection(p)
    \/ runFileCompleteHooks
    \/ receiveRequest
    \/ open
    \/ close
    \/ button
    \/ \E b \in DOMAIN window.buttons :
          \/ click(b)
          \/ checkFile(b)
          \/ settle(b)

Spec == Init /\ [][Next]_vars

(***************************************************************************)
(* Reading a step: the statement evaluation p executes in it, and whether  *)
(* p returns from a call in it.                                            *)
(***************************************************************************)
Active(p) == Alive /\ evals[p].state = "running" /\ evals[p].stack # <<>>

ExecutedStmts(p) ==
    IF ~Active(p) THEN {}
    ELSE IF TopFrame(p).kind = "program"
    THEN IF Len(programAST') = Len(programAST) + 1
         THEN {programAST'[Len(programAST')]} ELSE {}
    ELSE IF TopFrame(p).pc <= Len(TopFrame(p).body) /\ evals'[p] # evals[p]
    THEN {TopFrame(p).body[TopFrame(p).pc]} ELSE {}

Returns(p) ==
    /\ Active(p)
    /\ TopFrame(p).kind \in {"task", "method", "await"}
    /\ TopFrame(p).pc > Len(TopFrame(p).body)
    /\ evals'[p] # evals[p]

ImmutableTarget(n, e) ==
    LET o == OwnerOf(envs, n, e)
    IN o # 0 /\ ~envs[o].vars[n].mutable

FailsImmutable(p, n) ==
    /\ raised' = Append(raised, [eval |-> p, error |-> CannotReassign(n)])
    /\ envs' = envs
    /\ evals[p].kind = "main" => status' = "failed" /\ error' = CannotReassign(n)

(***************************************************************************)
(* C1.  An assignment x := e whose target resolves to an immutable binding *)
(* fails with the immutability error naming x, and leaves every binding    *)
(* (that one included) as it was.  The assignment happens once e has been  *)
(* evaluated: in the statement's own step, or, when e is a call, when the  *)
(* call returns.                                                           *)
(***************************************************************************)
C1_ImmutableAssignmentFails ==
    [][\A p \in DOMAIN evals :
        /\ \A s \in ExecutedStmts(p) :
              ( /\ s.type = "Assignment"
                /\ s.target.type = "Identifier"
                /\ s.value.type # "CallExpression"
                /\ evaluateExpression(envs, instances, s.value, TopFrame(p).env).error
                      = NoError
                /\ ImmutableTarget(s.target.name, TopFrame(p).env) )
              => FailsImmutable(p, s.target.name)
        /\ ( /\ Returns(p)
             /\ TopFrame(p).then.op = "assign"
             /\ ImmutableTarget(TopFrame(p).then.name, TopFrame(p).outer) )
           => FailsImmutable(p, TopFrame(p).then.name)
      ]_vars

\* the assignment to the immutable x failed and x still holds 1
C1_Witness ==
    /\ \E i \in DOMAIN raised : raised[i].error = CannotReassign("x")
    /\ "x" \in DOMAIN envs[1].vars
    /\ envs[1].vars["x"] = Binding(Num(1), FALSE)

(***************************************************************************)
(* C2.  A file in which route or respond is met in statement position      *)
(* while no leading declare has declared web fails to parse with the error *)
(* that names the keyword and web; a file whose leading declares include   *)
(* web parses.  Stated over Files at the end of parsing.  A declare after  *)
(* the leading run is a syntax error of its own, so the first part looks   *)
(* at files that have none before the first gated keyword, the second at   *)
(* files that have none at all.                                            *)
(***************************************************************************)
RECURSIVE LeadingRun(_)
LeadingRun(ts) ==
    IF Len(ts) >= 2 /\ ts[1].type = "DECLARE" /\ ts[2].type = "IDENTIFIER"
    THEN 2 + LeadingRun(SubSeq(ts, 3, Len(ts)))
    ELSE 0

DeclaredAtTop(ts) ==
    {ts[i].value : i \in {j \in 1..LeadingRun(ts) : ts[j].type = "IDENTIFIER"}}

LateDeclares(ts) == {i \in DOMAIN ts : i > LeadingRun(ts) /\ ts[i].type = "DECLARE"}

Gated(ts) == {i \in DOMAIN ts : ts[i].type \in {"ROUTE", "RESPOND"}}

FirstGated(ts) == CHOOSE i \in Gated(ts) : \A j \in Gated(ts) : i <= j

C2_CapabilityGate ==
    (family = "parser" /\ parseResult # Parsing) =>
        /\ ( /\ Gated(tokens) # {}
             /\ "web" \notin DeclaredAtTop(tokens)
             /\ \A i \in LateDeclares(tokens) : i > FirstGated(tokens) )
           => parseResult = FeatureRequires(tokens[FirstGated(tokens)].value, "web")
        /\ ("web" \in DeclaredAtTop(tokens) /\ LateDeclares(tokens) = {})
           => parseResult = ParseOk

\* a file with a route and no declare web was refused at the route
C2_Witness ==
    /\ parseResult = FeatureRequires("route", "web")
    /\ status = "failed"
    /\ tokens[position + 1].type = "ROUTE"

(***************************************************************************)
(* C3.  A variable declared inside a nested scope (task or method body,    *)
(* loop body, conditional branch) leaves the binding of the same name that *)
(* is visible from the enclosing scope as it was, so the outer variable    *)
(* still holds its value when the inner scope ends.                        *)
(***************************************************************************)
NestedKinds == {"task", "method", "each", "march", "if"}

OuterBindingKept(name, outer) ==
    LET o == OwnerOf(envs, name, outer)
    IN o # 0 => envs'[o].vars[name] = envs[o].vars[name]

C3_InnerDeclarationLeavesOuter ==
    [][\A p \in DOMAIN evals : \A s \in ExecutedStmts(p) :
          ( /\ s.type = "VariableDeclaration"
            /\ s.initializer.type # "CallExpression"
            /\ TopFrame(p).kind \in NestedKinds )
          => OuterBindingKept(s.name, TopFrame(p).outer)
      ]_vars

(***************************************************************************)
(* C4.  At instantiation the fields are initialised in declaration order:  *)
(* a field with a literal initializer holds that literal whatever the      *)
(* arguments are, and the k-th field without initializer holds the k-th    *)
(* constructor argument, or null when there are fewer arguments.           *)
(***************************************************************************)
Uninitialised(decl, k) ==
    Cardinality({j \in 1..(k - 1) : decl[j].initializer.type = "None"})

C4_FieldInitialisation ==
    \A i \in DOMAIN instances :
        LET d == instances[i].decl
            a == instances[i].args
            v == instances[i].initial
        IN \A k \in DOMAIN d :
              /\ d[k].name \in DOMAIN v
              /\ v[d[k].name].mutable = d[k].mutable
              /\ d[k].initializer.type = "Literal"
                    => v[d[k].name].value = d[k].initializer.value
              /\ d[k].initializer.type = "None"
                    => v[d[k].name].value =
                          IF Uninitialised(d, k) < Len(a)
                          THEN a[Uninitialised(d, k) + 1] ELSE Null

\* G(1, 2) on fields n, m = 7, k: the initializer of m took no argument
C4_Witness ==
    \E i \in DOMAIN instances :
        /\ instances[i].args = <<Num(1), Num(2)>>
        /\ Len(instances[i].decl) = 3
        /\ instances[i].initial["n"].value = Num(1)
        /\ instances[i].initial["m"].value = Num(7)
        /\ instances[i].initial["k"].value = Num(2)

(***************************************************************************)
(* C5.  The field storage of an instance changes only in a step made on    *)
(* that instance: a statement of one of its methods, the assignment of a   *)
(* call's result inside one of its methods, or an assignment to one of its *)
(* fields.  Calls and assignments on one instance leave every other        *)
(* instance's fields as they were.                                         *)
(***************************************************************************)
AssignsFieldOf(p, j) ==
    \E s \in ExecutedStmts(p) :
        /\ s.type = "Assignment"
        /\ s.target.type = "MemberExpression"
        /\ evaluateExpression(envs, instances, s.target.object, TopFrame(p).env)
              = Ok(Inst(j))

ActsOn(p, j) ==
    \/ ExecutedStmts(p) # {} /\ TopFrame(p).self = j
    \/ /\ Returns(p)
       /\ Len(evals[p].stack) > 1
       /\ evals[p].stack[Len(evals[p].stack) - 1].self = j
    \/ AssignsFieldOf(p, j)

C5_InstancesShareNoFields ==
    [][\A j \in DOMAIN instances :
          envs'[instances[j].env] # envs[instances[j].env]
              => \E p \in DOMAIN evals : ActsOn(p, j)
      ]_vars

\* two instances of one group: a method call changed the one, not the other
C5_Witness ==
    \E i, j \in DOMAIN instances :
        /\ family = "records"
        /\ i # j
        /\ instances[i].groupName = instances[j].groupName
        /\ envs[instances[i].env].vars["n"].value # instances[i].initial["n"].value
        /\ envs[instances[j].env].vars = instances[j].initial

(***************************************************************************)
(* C6.  A method supplied by a `do B for G` block is callable on an        *)
(* instance of G like a method of the group body: every instance of G has  *)
(* every method of every do block of G bound, and a call of either kind of *)
(* method runs in an Environment whose parent is the instance's field      *)
(* Environment, so both read and write the same fields.                    *)
(***************************************************************************)
MethodFramesUseFields ==
    \A p \in DOMAIN evals : \A k \in DOMAIN evals[p].stack :
        evals[p].stack[k].kind = "method"
            => envs[evals[p].stack[k].env].parent = instances[evals[p].stack[k].self].env

BoundOn(i, impl) ==
    \A m \in DOMAIN impl.methods :
        /\ m \in DOMAIN instances[i].methods
        /\ instances[i].methods[m] = impl.methods[m]

ImplementationsOf(i) ==
    IF instances[i].groupName \in DOMAIN groups
    THEN groups[instances[i].groupName].implementations ELSE <<>>

C6_DoMethodsOnEveryInstance ==
    /\ MethodFramesUseFields
    /\ \A i \in DOMAIN instances : \A k \in DOMAIN ImplementationsOf(i) :
          BoundOn(i, ImplementationsOf(i)[k])

\* what instantiateGroup does bind: the do blocks evaluated before the
\* instance was created
C6_DoMethodsOnLaterInstances ==
    /\ MethodFramesUseFields
    /\ \A i \in DOMAIN instances : \A k \in DOMAIN ImplementationsOf(i) :
          ImplementationsOf(i)[k].at < instances[i].born
              => BoundOn(i, ImplementationsOf(i)[k])

\* G(1, 2), then inc of the group body and bump of the do block: n = 1 + 1 + 10
C6_Witness ==
    \E i \in DOMAIN instances :
        /\ "bump" \in DOMAIN instances[i].methods
        /\ "inc" \in DOMAIN instances[i].methods
        /\ instances[i].initial["n"].value = Num(1)
        /\ envs[instances[i].env].vars["n"].value = Num(12)

(***************************************************************************)
(* C7.  Evaluation is sequential in source order: the output lines of the  *)
(* program appear in the order of the top-level statements they come from. *)
(***************************************************************************)
OfProgram(line) == evals[line.eval].kind \in {"main", "detached"}

C7_OutputInSourceOrder ==
    \A i, j \in DOMAIN output :
        (i < j /\ OfProgram(output[i]) /\ OfProgram(output[j]))
            => output[i].stmt <= output[j].stmt

(***************************************************************************)
(* C8.  While the main program or a request handler is suspended at an     *)
(* await point, no other of these evaluations executes a statement.        *)
(***************************************************************************)
Serial(p) == evals[p].kind \in {"main", "handler"}

C8_NoInterleaving ==
    [][\A p, q \in DOMAIN evals :
          (p # q /\ Serial(p) /\ Serial(q) /\ evals[p].state = "suspended")
              => ExecutedStmts(q) = {}
      ]_vars

(***************************************************************************)
(* C9.  A runtime error raised by a statement ends the program: the step   *)
(* that raises it leaves the runner failed with a non-zero exit code, and  *)
(* after an error no statement executes, no output is recorded and the     *)
(* file-complete hooks do not run.                                         *)
(***************************************************************************)
C9_ErrorsEndTheProgram ==
    [][ /\ Len(raised') > Len(raised) => (status' = "failed" /\ exitCode' # 0)
        /\ raised # <<>> =>
              /\ output' = output
              /\ hooksRun' = hooksRun
              /\ \A p \in DOMAIN evals : ExecutedStmts(p) = {}
      ]_vars

(***************************************************************************)
(* C10.  The method table of a group and the signature table of a          *)
(* blueprint are populated once, when the declaration is evaluated: no     *)
(* later statement, another declaration of the same name included, changes *)
(* the table registered under a name.                                      *)
(***************************************************************************)
C10_TablesNeverChange ==
    [][ /\ \A g \in DOMAIN groups :
              g \in DOMAIN groups' /\ groups'[g].methods = groups[g].methods
        /\ \A b \in DOMAIN blueprints :
              b \in DOMAIN blueprints' /\ blueprints'[b].methods = blueprints[b].methods
      ]_vars

\* what defineGroup and defineBlueprint do keep: a table is the declared one,
\* and it changes only when a declaration of the name is evaluated again
Declares(type, name) ==
    \E p \in DOMAIN evals : \E s \in ExecutedStmts(p) : s.type = type /\ s.name = name

FilledFromDeclaration ==
    \A p \in DOMAIN evals : \A s \in ExecutedStmts(p) :
        /\ s.type = "GroupDeclaration"
              => /\ s.name \in DOMAIN groups'
                 /\ groups'[s.name].methods = MethodTable(s.methods)
        /\ s.type = "BlueprintDeclaration"
              => /\ s.name \in DOMAIN blueprints'
                 /\ blueprints'[s.name].methods = MethodTable(s.methods)

C10_TablesChangeByDeclarationOnly ==
    [][ /\ FilledFromDeclaration
        /\ \A g \in DOMAIN groups :
              /\ g \in DOMAIN groups'
              /\ groups'[g].methods # groups[g].methods => Declares("GroupDeclaration", g)
        /\ \A b \in DOMAIN blueprints :
              /\ b \in DOMAIN blueprints'
              /\ blueprints'[b].methods # blueprints[b].methods
                    => Declares("BlueprintDeclaration", b)
      ]_vars

\* a do block and an instantiation came after the declaration of G, whose
\* method table still is the declared one
C10_Witness ==
    /\ "G" \in DOMAIN groups
    /\ groups["G"].implementations # <<>>
    /\ instances # <<>>
    /\ DOMAIN groups["G"].methods = {"inc"}
    /\ Len(programAST) > groups["G"].at + 1

(***************************************************************************)
(* C11.  Capability declarations are taken only in the leading run of      *)
(* declare statements: a declare met after another top-level statement     *)
(* never declares its capability, and a file that has one fails to parse,  *)
(* at a gated keyword that comes before it when web is not declared at the *)
(* top, else at the late declare itself.                                   *)
(***************************************************************************)
FirstLateDeclare(ts) == CHOOSE i \in LateDeclares(ts) : \A j \in LateDeclares(ts) : i <= j

GatedBefore(ts, d) == {i \in Gated(ts) : i < d}

LateDeclareError(ts) ==
    IF "web" \notin DeclaredAtTop(ts) /\ GatedBefore(ts, FirstLateDeclare(ts)) # {}
    THEN FeatureRequires(ts[FirstGated(ts)].value, "web")
    ELSE UnexpectedToken("declare")

C11_DeclarationsFirst ==
    family = "parser" =>
        /\ declaredPlugins \subseteq DeclaredAtTop(tokens)
        /\ LateDeclares(tokens) # {} =>
              /\ parseResult # ParseOk
              /\ parseResult # Parsing => parseResult = LateDeclareError(tokens)

\* print "a", then declare web: parsing stopped at the declare, web undeclared
C11_Witness ==
    /\ family = "parser"
    /\ parseResult = UnexpectedToken("declare")
    /\ position > 0
    /\ tokens[position + 1].type = "DECLARE"
    /\ tokens[position + 2].value = "web"
    /\ "web" \notin declaredPlugins

(***************************************************************************)
(* C12.  Capabilities do not leak.  In programs that declare no variable   *)
(* of their own under a built-in's name: a built-in name of a capability   *)
(* is bound, and a built-in value is held by a binding, only when a        *)
(* declare statement of that capability has been evaluated; until then a   *)
(* lookup of the name from any Environment fails as an undefined variable. *)
(***************************************************************************)
DeclareEvaluated(plugin) ==
    \E i \in DOMAIN programAST : programAST[i] = DeclareStatement(plugin)

PluginOf(b) == CHOOSE plugin \in RegisteredPlugins : b \in PluginBuiltins(plugin)

C13_HooksOnceAfterProgram ==
    [][ /\ hooksRun' # hooksRun =>
              /\ hooksRun = <<>>
              /\ status = "running" /\ status' = "complete"
              /\ evals[1].state = "running" /\ evals[1].stack = <<TopFrame(1)>>
              /\ TopFrame(1).kind = "program"
              /\ family = "parser" => programAST = body
              /\ hooksRun' = <<[declaredPlugins |-> declaredPlugins, env |-> 1]>>
              /\ envs[1].parent = 0
        /\ hooksRun # <<>> => programAST' = programAST
        /\ (status' = "complete") = (hooksRun' # <<>> /\ status' # "failed")
      ]_vars

\* the hooks ran after declare web, declare time and a route, with both
\* capabilities in their context
C13_Witness ==
    /\ Len(hooksRun) = 1
    /\ hooksRun[1].declaredPlugins = {"web", "time"}
    /\ hooksRun[1].env = 1
    /\ Len(programAST) = 3
    /\ programAST[3].type = "RouteStatement"
    /\ status = "complete"

(***************************************************************************)
(* C14.  An assume/maybe/otherwise chain tries its guards from the top and *)
(* runs the body of the first branch that is the otherwise branch or whose *)
(* guard is truthy, and only that one; it runs nothing when there is none. *)
(* No guard after the chosen branch is evaluated: a later guard that would *)
(* fail raises nothing.  A chain contributes at most one body's output.    *)
(***************************************************************************)
Guard(s, k, e) == evaluateExpression(envs, instances, s.conditions[k].condition, e)

Fires(s, k, e) ==
    \/ s.conditions[k].condition.type = "None"
    \/ Guard(s, k, e).error = NoError /\ isTruthy(Guard(s, k, e).value)

GuardFails(s, k, e) ==
    s.conditions[k].condition.type # "None" /\ Guard(s, k, e).error # NoError

\* the branches reached: every guard above them was evaluated and was falsy
Reached(s, e) ==
    {k \in DOMAIN s.conditions :
        \A j \in 1..(k - 1) : ~Fires(s, j, e) /\ ~GuardFails(s, j, e)}

RunsBody(p, stmts) ==
    /\ raised' = raised
    /\ Len(evals'[p].stack) = Len(evals[p].stack) + 1
    /\ evals'[p].stack[Len(evals'[p].stack)].kind = "if"
    /\ evals'[p].stack[Len(evals'[p].stack)].body = stmts
    /\ evals'[p].stack[Len(evals'[p].stack)].pc = 1

RunsNothing(p) ==
    /\ raised' = raised
    /\ Len(evals'[p].stack) = Len(evals[p].stack)

LinesOf(label) == {i \in DOMAIN output' : output'[i].stmt = label}

C14_FirstTruthyBranchOnly ==
    [][ /\ \A p \in DOMAIN evals : \A s \in ExecutedStmts(p) :
              s.type = "IfStatement" =>
                  LET e == TopFrame(p).env
                  IN /\ \A k \in Reached(s, e) :
                           /\ Fires(s, k, e) => RunsBody(p, s.conditions[k].body)
                           /\ GuardFails(s, k, e) =>
                                 raised' = Append(raised,
                                                  [eval |-> p, error |-> Guard(s, k, e).error])
                     /\ (\A k \in DOMAIN s.conditions : ~Fires(s, k, e) /\ ~GuardFails(s, k, e))
                           => RunsNothing(p)
        /\ \A i \in DOMAIN programAST' :
              programAST'[i].type = "IfStatement" => Cardinality(LinesOf(i)) <= 1
      ]_vars

\* c = no, d = 1, then the chain with an otherwise branch: only B was printed
C14_Witness ==
    /\ family = "branches"
    /\ Len(programAST) = 3
    /\ programAST[3] = Chain(<<Branch(NoExpr, <<PrintStatement(Text("C"))>>)>>)
    /\ Len(output) = 1
    /\ output[1].text = "B"
    /\ evals[1].stack = <<TopFrame(1)>>
    /\ raised = <<>>

(***************************************************************************)
(* C15.  In a select statement a case's body executes if and only if the   *)
(* subject contains the case's key and the case has no guard or its guard  *)
(* evaluates truthy; the cases are considered in source order and every    *)
(* case satisfying the condition executes, a case that fired not           *)
(* preventing the later ones.  Step by step: the select statement, and     *)
(* then the end of each case body, enters the body of the first case not   *)
(* yet considered that satisfies the condition, keeping the cases after it *)
(* to be considered; no body is entered when no case is left that          *)
(* satisfies it.  As a result the lines a completed select has printed are *)
(* those of the satisfying cases, in source order.                         *)
(***************************************************************************)
Contains(obj, key) == IsObj(obj) /\ \E i \in DOMAIN obj.props : obj.props[i].key = key

GuardValue(heap, c, j, e) == evaluateExpression(heap, instances, c.conditions[j], e)

GuardTruthy(heap, c, e) ==
    \A j \in DOMAIN c.conditions :
        GuardValue(heap, c, j, e).error = NoError /\ isTruthy(GuardValue(heap, c, j, e).value)

GuardThrows(heap, c, e) ==
    \E j \in DOMAIN c.conditions : GuardValue(heap, c, j, e).error # NoError

Satisfies(heap, obj, c, e) == Contains(obj, c.key) /\ GuardTruthy(heap, c, e)

Aborts(heap, obj, c, e) == Contains(obj, c.key) /\ GuardThrows(heap, c, e)

EntersCase(p, base, obj, cases, k, e) ==
    /\ raised' = raised
    /\ Len(evals'[p].stack) = Len(base) + 1
    /\ SubSeq(evals'[p].stack, 1, Len(base)) = base
    /\ LET f == evals'[p].stack[Len(base) + 1]
       IN /\ f.kind = "select"
          /\ f.env = e
          /\ f.body = cases[k].body
          /\ f.pc = 1
          /\ f.items = SubSeq(cases, k + 1, Len(cases))
          /\ f.result = obj

EntersNoCase(p, base) == raised' = raised /\ evals'[p].stack = base

\* the step takes up the cases in order
Considers(p, base, obj, cases, e) ==
    /\ \A k \in DOMAIN cases :
          (\A j \in 1..(k - 1) :
                ~Satisfies(envs, obj, cases[j], e) /\ ~Aborts(envs, obj, cases[j], e))
          => /\ Satisfies(envs, obj, cases[k], e) => EntersCase(p, base, obj, cases, k, e)
             /\ Aborts(envs, obj, cases[k], e) => Len(raised') = Len(raised) + 1
    /\ (\A k \in DOMAIN cases :
            ~Satisfies(envs, obj, cases[k], e) /\ ~Aborts(envs, obj, cases[k], e))
          => EntersNoCase(p, base)

\* the text a case body prints
RECURSIVE TextsOf(_, _, _, _)
TextsOf(heap, obj, cases, e) ==
    IF cases = <<>> THEN <<>>
    ELSE (IF Satisfies(heap, obj, Head(cases), e)
          THEN <<Head(cases).body[1].expressions[1].value.str>> ELSE <<>>)
         \o TextsOf(heap, obj, Tail(cases), e)

Printed(lines, label) ==
    LET mine == SelectSeq(lines, LAMBDA l : l.stmt = label)
    IN [i \in DOMAIN mine |-> mine[i].text]

\* the last top-level statement is a select that has just completed
SelectCompletes(i) ==
    /\ i > 0
    /\ programAST'[i].type = "SelectStatement"
    /\ error' = NoError
    /\ Len(evals'[1].stack) = 1
    /\ Len(evals[1].stack) = 2 \/ Len(programAST) < i

C15_EveryMatchingCaseRuns ==
    [][ /\ \A p \in DOMAIN evals :
              /\ \A s \in ExecutedStmts(p) :
                    ( /\ s.type = "SelectStatement"
                      /\ evaluateExpression(envs, instances, s.expression,
                                            TopFrame(p).env).error = NoError )
                    => Considers(p, Stepped(p),
                                 evaluateExpression(envs, instances, s.expression,
                                                    TopFrame(p).env).value,
                                 s.cases, TopFrame(p).env)
              /\ AtEnd(p, {"select"}) =>
                    Considers(p, Popped(p), TopFrame(p).result, TopFrame(p).items,
                              TopFrame(p).env)
        /\ SelectCompletes(Len(programAST')) =>
              Printed(output', Len(programAST'))
                 = TextsOf(envs', lookupVariable(envs', "config", 1).value,
                           programAST'[Len(programAST')].cases, 1)
      ]_vars

\* config = {"mode":"debug","debug":yes}: the second, third and fourth case
\* of the select have fired, in that order, and the first has not
C15_Witness ==
    /\ family = "select"
    /\ programAST = <<VariableDeclaration("config", TRUE, Debugging), SelectBySubject>>
    /\ Len(evals[1].stack) = 1
    /\ Printed(output, 2) = <<"X", "D", "M">>
    /\ raised = <<>>

(***************************************************************************)
(* C16.  For the select subject {"mode":"production"}, a case keyed "mode" *)
(* with guard mode == "production" executes its body, and the same case    *)
(* with guard mode == "debug" does not execute its body.                   *)
(***************************************************************************)
ProductionConfig == Obj(<<Property("mode", Str("production"))>>)
DebugConfig == Obj(<<Property("mode", Str("debug")), Property("debug", Bool(TRUE))>>)

SubjectOf(p, s) == evaluateExpression(envs, instances, s.expression, TopFrame(p).env)

\* evaluation p is at the end of the body of case k of s, subject obj
AfterCase(p, s, k, obj) ==
    /\ AtEnd(p, {"select"})
    /\ TopFrame(p).body = s.cases[k].body
    /\ TopFrame(p).items = SubSeq(s.cases, k + 1, Len(s.cases))
    /\ TopFrame(p).result = obj

C16_GuardNamesKey ==
    [][\A p \in DOMAIN evals :
          /\ \A s \in ExecutedStmts(p) :
                (s = SelectByName /\ SubjectOf(p, s) = Ok(ProductionConfig))
                => EntersCase(p, Stepped(p), ProductionConfig, s.cases, 1, TopFrame(p).env)
          /\ AfterCase(p, SelectByName, 1, ProductionConfig) => EntersNoCase(p, Popped(p))
      ]_vars

(***************************************************************************)
(* C16 as the evaluator has it.  A guard is an expression evaluated in the *)
(* Environment of the select statement; the keys of the subject are not    *)
(* bound in it.  With config = {"mode":"production"} as the subject, the   *)
(* case keyed "mode" with guard config["mode"] == "production" executes    *)
(* its body and the same case with guard config["mode"] == "debug" does    *)
(* not.  In the guard mode == "production" the name mode is the variable   *)
(* mode: with no such variable the select raises Undefined variable: mode  *)
(* and runs no body, and with mode = "production" in scope the case        *)
(* executes whatever the subject holds under "mode".                       *)
(***************************************************************************)
ModeIs(p) == lookupVariable(envs, "mode", TopFrame(p).env)

C16_GuardReadsSubject ==
    [][\A p \in DOMAIN evals :
          /\ \A s \in ExecutedStmts(p) :
                /\ (s = SelectBySubject /\ SubjectOf(p, s) = Ok(ProductionConfig))
                   => EntersCase(p, Stepped(p), ProductionConfig, s.cases, 1,
                                 TopFrame(p).env)
                /\ ( /\ s = SelectByName
                     /\ SubjectOf(p, s).error = NoError
                     /\ ModeIs(p).error # NoError )
                   => /\ raised' = Append(raised, [eval |-> p,
                                                  error |-> UndefinedVariable("mode")])
                      /\ output' = output
                /\ ( /\ s = SelectByName
                     /\ SubjectOf(p, s).error = NoError
                     /\ ModeIs(p) = Ok(Str("production")) )
                   => EntersCase(p, Stepped(p), SubjectOf(p, s).value, s.cases, 1,
                                 TopFrame(p).env)
          \* after the first body: the debug guard and the "debug" key fail,
          \* the unguarded "mode" case is next
          /\ AfterCase(p, SelectBySubject, 1, ProductionConfig)
             => EntersCase(p, Popped(p), ProductionConfig, TopFrame(p).items, 3,
                           TopFrame(p).env)
      ]_vars

\* config = {"mode":"production"}: the select has printed P and M, not X
C16_Witness ==
    /\ family = "select"
    /\ programAST = <<VariableDeclaration("config", TRUE, Production), SelectBySubject>>
    /\ lookupVariable(envs, "config", 1) = Ok(ProductionConfig)
    /\ Len(evals[1].stack) = 1
    /\ Printed(output, 2) = <<"P", "M">>
    /\ raised = <<>>

(***************************************************************************)
(* C17.  An each loop over a list executes its body once per element, in   *)
(* list order, each time in a fresh child Environment (parent = the        *)
(* enclosing Environment) that binds the loop variable to that element; if *)
(* the iterable is not a list a runtime error is raised and the body is    *)
(* never executed.                                                         *)
(***************************************************************************)
\* evaluation p enters the body for the first of items, on top of base
Iterates(p, base, kind, stmts, variable, items, e) ==
    /\ raised' = raised
    /\ envs' = Append(envs, [parent |-> e,
                             vars |-> [n \in {variable} |-> Binding(Head(items), FALSE)]])
    /\ Len(evals'[p].stack) = Len(base) + 1
    /\ SubSeq(evals'[p].stack, 1, Len(base)) = base
    /\ LET f == evals'[p].stack[Len(base) + 1]
       IN /\ f.kind = kind
          /\ f.env = Len(envs) + 1
          /\ f.outer = e
          /\ f.body = stmts
          /\ f.pc = 1
          /\ f.items = Tail(items)

LeavesLoop(p, base) == raised' = raised /\ envs' = envs /\ evals'[p].stack = base

IterableOf(p, s) == evaluateExpression(envs, instances, s.iterable, TopFrame(p).env)

\* the last top-level statement, a loop, has just completed
LoopCompletes(i, type) ==
    /\ i > 0
    /\ programAST'[i].type = type
    /\ error' = NoError
    /\ Len(evals'[1].stack) = 1
    /\ Len(evals[1].stack) = 2 \/ Len(programAST) < i

TextOfEach(items) == [k \in DOMAIN items |-> stringify(items[k])]

Ascending(a, b) == [i \in 1..(b - a + 1) |-> Num(a + i - 1)]

StartOf(p, s) == evaluateExpression(envs, instances, s.start, TopFrame(p).env)
EndOf(p, s) == evaluateExpression(envs, instances, s.end, TopFrame(p).env)

Numeric(r) == r.error = NoError /\ r.value.t = "number" /\ ~IsNaN(r.value)

C18_MarchLoopInclusive ==
    [][ /\ \A p \in DOMAIN evals :
              /\ \A s \in ExecutedStmts(p) :
                    (s.type = "MarchLoop" /\ Numeric(StartOf(p, s)) /\ Numeric(EndOf(p, s)))
                    => IF StartOf(p, s).value.num > EndOf(p, s).value.num
                       THEN LeavesLoop(p, Stepped(p))
                       ELSE Iterates(p, Stepped(p), "march", s.body, s.variable,
                                     Ascending(StartOf(p, s).value.num,
                                               EndOf(p, s).value.num),
                                     TopFrame(p).env)
              /\ AtEnd(p, {"march"}) =>
                    IF TopFrame(p).items = <<>> THEN LeavesLoop(p, Popped(p))
                    ELSE Iterates(p, Popped(p), "march", TopFrame(p).body,
                                  TopFrame(p).variable, TopFrame(p).items, TopFrame(p).outer)
        /\ (family = "march" /\ LoopCompletes(Len(programAST'), "MarchLoop")) =>
              IF programAST'[Len(programAST')] = MarchToThree
              THEN Printed(output', Len(programAST'))
                      = <<"Number: 1", "Number: 2", "Number: 3">>
              ELSE Printed(output', Len(programAST')) \in {<<>>, <<"1", "2", "3">>}
      ]_vars

\* free b = 3, then the loop to b: the body set b to 0 in the first
\* iteration and the loop still ran for 1, 2 and 3
C18_Witness ==
    /\ family = "march"
    /\ programAST = <<VariableDeclaration("b", TRUE, Lit(3)), MarchToB>>
    /\ Len(evals[1].stack) = 1
    /\ Printed(output, 2) = <<"1", "2", "3">>
    /\ lookupVariable(envs, "b", 1) = Ok(Num(0))
    /\ Len(envs) = 4
    /\ \A k \in 2..4 : envs[k].parent = 1 /\ envs[k].vars["i"] = Binding(Num(k - 1), FALSE)

(***************************************************************************)
(* C19.  The + operator returns the numeric sum when both operands are     *)
(* numbers; for every other combination of operand types (string, boolean, *)
(* null, list, object) it returns the concatenation of the two operands'   *)
(* textual representations, the representation print uses.                 *)
(***************************************************************************)
IsSum(node) == node.type = "BinaryExpression" /\ node.operator = "+"

Operand(p, node) == evaluateExpression(envs, instances, node, TopFrame(p).env)

SumOrText(l, r) ==
    IF Numbers(l, r) THEN Num(l.num + r.num)
    ELSE Str(stringify(l) \o stringify(r))

C19_PlusAddsOrConcatenates ==
    [][\A p \in DOMAIN evals : \A s \in ExecutedStmts(p) :
          ( /\ s.type = "VariableDeclaration"
            /\ IsSum(s.initializer)
            /\ Operand(p, s.initializer.left).error = NoError
            /\ Operand(p, s.initializer.right).error = NoError )
          => /\ raised' = raised
             /\ envs'[TopFrame(p).env].vars[s.name].value
                   = SumOrText(Operand(p, s.initializer.left).value,
                               Operand(p, s.initializer.right).value)
      ]_vars

(***************************************************************************)
(* C20.  Each executed print statement appends exactly one entry to the    *)
(* recorded output, equal to the string representations of its expressions *)
(* joined with no separator, where every expression whose value is         *)
(* callable is first invoked with no arguments and its result is what gets *)
(* stringified.                                                            *)
(*                                                                         *)
(* Printing is followed through its steps: the step that executes the      *)
(* statement and, when an expression is invoked, the step in which the     *)
(* invoked task returns.  PrintsFrom(p, base, parts, exprs, e, any) says   *)
(* what such a step does with the expressions still to be printed: when    *)
(* none of them is to be invoked, the one line is appended, made of the    *)
(* parts so far and their string representations, and nothing is called;   *)
(* when the first to be invoked holds a task, no line is appended yet and  *)
(* the task is entered, the print going on when it returns.  With any set, *)
(* every expression whose value is callable is to be invoked.              *)
(***************************************************************************)
ValueIn(x, e) == evaluateExpression(envs, instances, x, e)

Invoked(x, e, any) ==
    /\ ValueIn(x, e).error = NoError
    /\ IsFunction(ValueIn(x, e).value)
    /\ any \/ x.type = "Identifier"

Plain(x, e, any) ==
    /\ x.type # "CallExpression"
    /\ ValueIn(x, e).error = NoError
    /\ ~Invoked(x, e, any)
    /\ Stringifies(ValueIn(x, e).value)

RECURSIVE JoinParts(_, _)
JoinParts(exprs, e) ==
    IF exprs = <<>> THEN ""
    ELSE stringify(ValueIn(Head(exprs), e).value) \o JoinParts(Tail(exprs), e)

AppendsLine(p, base, text) ==
    /\ raised' = raised
    /\ Len(output') = Len(output) + 1
    /\ SubSeq(output', 1, Len(output)) = output
    /\ output'[Len(output')].text = text
    /\ output'[Len(output')].eval = p
    /\ evals'[p].stack = base
    /\ envs' = envs /\ instances' = instances

EntersInvoked(p, base, f, parts, rest, e) ==
    /\ raised' = raised
    /\ output' = output
    /\ Len(evals'[p].stack) = Len(base) + 1
    /\ SubSeq(evals'[p].stack, 1, Len(base)) = base
    /\ LET top == evals'[p].stack[Len(base) + 1]
       IN /\ top.kind = "task"
          /\ top.body = tasks[f.task].node.body
          /\ top.outer = e
          /\ top.then = ThenPrint(parts, rest)

PrintsFrom(p, base, parts, exprs, e, any) ==
    IF \A k \in DOMAIN exprs : Plain(exprs[k], e, any)
    THEN AppendsLine(p, base, parts \o JoinParts(exprs, e))
    ELSE LET k == CHOOSE i \in DOMAIN exprs :
                     ~Plain(exprs[i], e, any) /\ \A j \in 1..(i - 1) : Plain(exprs[j], e, any)
         IN (Invoked(exprs[k], e, any) /\ IsTask(ValueIn(exprs[k], e).value))
            => EntersInvoked(p, base, ValueIn(exprs[k], e).value,
                             parts \o JoinParts(SubSeq(exprs, 1, k - 1), e),
                             SubSeq(exprs, k + 1, Len(exprs)), e)

PrintGoesOn(p) ==
    /\ Returns(p)
    /\ TopFrame(p).then.op = "print"
    /\ Stringifies(TopFrame(p).result)

PrintSteps(any) ==
    /\ \A p \in DOMAIN evals :
          /\ \A s \in ExecutedStmts(p) :
                s.type = "PrintStatement"
                => PrintsFrom(p, Stepped(p), "", s.expressions, TopFrame(p).env, any)
          /\ PrintGoesOn(p)
             => PrintsFrom(p, Popped(p),
                           TopFrame(p).then.parts \o stringify(TopFrame(p).result),
                           TopFrame(p).then.rest, TopFrame(p).outer, any)
    /\ output' # output
       => /\ Len(output') = Len(output) + 1
          /\ \E p \in DOMAIN evals :
                \/ \E s \in ExecutedStmts(p) : s.type = "PrintStatement"
                \/ PrintGoesOn(p)

C20_EveryCallableInvoked == [][PrintSteps(TRUE)]_vars

(***************************************************************************)
(* C20 as the evaluator has it.  Each print statement that completes       *)
(* appends exactly one entry, the string representations of its            *)
(* expressions joined with no separator; an expression is invoked with no  *)
(* arguments, its result being what is stringified, when it is an          *)
(* identifier whose value is callable.  A callable value reached any other *)
(* way (a member expression) is not invoked: its text is printed.          *)
(***************************************************************************)
C20_CallableIdentifierInvoked == [][PrintSteps(FALSE)]_vars

\* task f prints "in"; o = {"g": f}; print "r=" and f and "!" has printed
\* in and r=null!; print "g=" and o.g has printed the text of the function
C20_Witness ==
    /\ family = "print"
    /\ programAST = <<TaskDeclaration("f", <<>>, <<PrintStatement(Text("in"))>>),
                      VariableDeclaration("o", TRUE, ObjectLiteral(<<Property("g", Id("f"))>>)),
                      PrintTask, PrintMember>>
    /\ Len(evals[1].stack) = 1
    /\ Printed(output, 3) = <<"in", "r=null!">>
    /\ Printed(output, 4) = <<"g=" \o FunctionText>>
    /\ raised = <<>>

(***************************************************************************)
(* C21.  For a group Counter with mutable field count = 0 and a method     *)
(* increment that increments and returns count, instantiating once and     *)
(* calling increment twice yields 1 and then 2 as the call results: the    *)
(* field update persists between calls on the same instance and the call   *)
(* returns the value.  Step by step: the body of increment raises no       *)
(* error, it adds one to the field of the instance, and the variable       *)
(* declared from the call holds the count the call has reached.            *)
(***************************************************************************)
InIncrement(p) ==
    /\ family = "counter"
    /\ Active(p)
    /\ TopFrame(p).kind = "method"

CountOf(heap, i) == heap[instances[i].env].vars["count"].value

C21_IncrementYieldsCount ==
    [][\A p \in DOMAIN evals :
          InIncrement(p) =>
             /\ raised' = raised
             /\ \A s \in ExecutedStmts(p) :
                   s = Add("count", 1)
                   => CountOf(envs', TopFrame(p).self)
                         = Num(CountOf(envs, TopFrame(p).self).num + 1)
             /\ (Returns(p) /\ TopFrame(p).then.op = "declare")
                => envs'[TopFrame(p).outer].vars[TopFrame(p).then.name].value
                      = CountOf(envs, TopFrame(p).self)
      ]_vars

(***************************************************************************)
(* C22.  Empty strings, empty arrays and empty objects are falsy: an       *)
(* assume guard whose value is "", [] or {} does not execute its branch.   *)
(***************************************************************************)
IsEmpty(v) == v \in {Str(""), List(<<>>), Obj(<<>>)}

C22_EmptyIsFalsy ==
    [][\A p \in DOMAIN evals : \A s \in ExecutedStmts(p) :
          ( /\ s.type = "IfStatement"
            /\ s.conditions[1].condition.type # "None"
            /\ Guard(s, 1, TopFrame(p).env).error = NoError
            /\ IsEmpty(Guard(s, 1, TopFrame(p).env).value) )
          => ~RunsBody(p, s.conditions[1].body)
      ]_vars

(***************************************************************************)
(* C23.  A statement that consists only of the name of a task (no          *)
(* arguments, no parentheses) invokes that task: executing an expression   *)
(* statement whose expression is an identifier bound to a task enters the  *)
(* body of that task.                                                      *)
(***************************************************************************)
NamesTask(p, s) ==
    /\ s.type = "ExpressionStatement"
    /\ s.expression.type = "Identifier"
    /\ evaluateExpression(envs, instances, s.expression, TopFrame(p).env).error = NoError
    /\ IsTask(evaluateExpression(envs, instances, s.expression, TopFrame(p).env).value)

C23_BareTaskNameInvokes ==
    [][\A p \in DOMAIN evals : \A s \in ExecutedStmts(p) :
          NamesTask(p, s)
          => /\ Len(evals'[p].stack) = Len(evals[p].stack) + 1
             /\ evals'[p].stack[Len(evals'[p].stack)].kind = "task"
      ]_vars

(***************************************************************************)
(* C24.  In a call without parentheses the parser takes the maximal run of *)
(* comma-separated string, number and identifier tokens as arguments and   *)
(* stops at any statement-terminating token (block arrow, assignment, end, *)
(* newline, end of file, maybe, otherwise): no token lying beyond such a   *)
(* terminator is taken as an argument.  For a top-level statement parsed   *)
(* as a call, every token the statement consumed after the callee lies, in *)
(* the token file, before the first terminator that follows the callee.    *)
(***************************************************************************)
\* the place in the token file of the k-th token the parser keeps
SourceIndex(k) ==
    CHOOSE i \in DOMAIN source :
        /\ source[i].type # "NEWLINE"
        /\ Cardinality({j \in 1..i : source[j].type # "NEWLINE"}) = k

\* the first terminator of the token file after place i
FirstTerminator(i) ==
    CHOOSE j \in DOMAIN source :
        /\ j > i
        /\ source[j].type \in Terminators
        /\ \A k \in (i + 1)..(j - 1) : source[k].type \notin Terminators

ParsesCall ==
    /\ status = "parsing"
    /\ Len(body') = Len(body) + 1
    /\ body'[Len(body')].type = "ExpressionStatement"
    /\ body'[Len(body')].expression.type = "CallExpression"

C24_BareCallStopsAtTerminator ==
    [][ParsesCall =>
          \A k \in (position + 2)..position' :
              SourceIndex(k) < FirstTerminator(SourceIndex(position + 1))
      ]_vars

(***************************************************************************)
(* C25.  Parser.parse terminates on every finite token stream that ends    *)
(* with EOF: every iteration of each parsing loop either consumes at least *)
(* one token or raises a parse error, and a successful parse returns       *)
(* exactly one Program node with the position at EOF.  A turn of parse()'s *)
(* loops consumes a token or fails; so does, from any position, a          *)
(* statement of a block body, an element of an array or of a parenthesised *)
(* argument list, and an argument of a call without parentheses; the       *)
(* position never passes the EOF token, so the turns are at most as many   *)
(* as the tokens; the last turn returns the Program at EOF or throws.       *)
(***************************************************************************)
Consumes(r, pos) ==
    \/ r.error # NoError
    \/ r.position > pos /\ r.position < Len(tokens)

LoopsConsume ==
    \A pos \in 0..(Len(tokens) - 1) :
        /\ ~match(tokens, pos, {"END"}) => Consumes(parseStatement(tokens, pos, declaredPlugins), pos)
        /\ ~match(tokens, pos, {"RBRACKET", "RPAREN"}) => Consumes(parseExpression(tokens, pos), pos)
        /\ match(tokens, pos, ArgumentTokens) => Consumes(parsePrimaryExpression(tokens, pos), pos)

ParseTurn ==
    \/ position' > position /\ Len(body') = Len(body) + 1 /\ status' = "parsing"
    \/ /\ status' = "failed"
       /\ parseResult' \notin {Parsing, ParseOk}
       /\ error' = parseResult'
    \/ /\ status' = "running"
       /\ parseResult' = ParseOk
       /\ position' = position
       /\ body' = body
       /\ position = Len(tokens) - 1
       /\ tokens[position + 1].type = "EOF"

BindsOnlyIn(e, name, mutable) ==
    /\ Len(envs') = Len(envs)
    /\ \A i \in DOMAIN envs : i # e => envs'[i] = envs[i]
    /\ envs'[e].parent = envs[e].parent
    /\ DOMAIN envs'[e].vars = DOMAIN envs[e].vars \cup {name}
    /\ \A n \in DOMAIN envs[e].vars : n # name => envs'[e].vars[n] = envs[e].vars[n]
    /\ envs'[e].vars[name].mutable = mutable

InPlace(s) ==
    /\ s.type = "VariableDeclaration"
    /\ s.initializer.type \notin {"None", "CallExpression"}

InitialValue(p, s) == evaluateExpression(envs, instances, s.initializer, TopFrame(p).env)

C26_DeclarationBindsLocally ==
    [][\A p \in DOMAIN evals :
          /\ \A s \in ExecutedStmts(p) :
                (InPlace(s) /\ InitialValue(p, s).error = NoError)
                => /\ BindsOnlyIn(TopFrame(p).env, s.name, s.mutable)
                   /\ envs'[TopFrame(p).env].vars[s.name].value = InitialValue(p, s).value
                   /\ raised' = raised
          /\ (Returns(p) /\ TopFrame(p).then.op = "declare")
             => /\ BindsOnlyIn(TopFrame(p).outer, TopFrame(p).then.name, TopFrame(p).then.mutable)
                /\ raised' = raised
      ]_vars

\* lock x = 1; each i in [1, 2] => free x = i, x := 0 end; free x = 1: the
\* loop has left the global x at 1, and the last declaration has replaced
\* the immutable binding by a mutable one
C26_Witness ==
    /\ family = "scope"
    /\ programAST = <<VariableDeclaration("x", FALSE, Lit(1)),
                      EachLoop("i", ArrayLiteral(<<Lit(1), Lit(2)>>),
                               <<VariableDeclaration("x", TRUE, Id("i")),
                                 Assignment(Id("x"), Lit(0))>>),
                      VariableDeclaration("x", TRUE, Lit(1))>>
    /\ Len(evals[1].stack) = 1
    /\ envs[1].vars["x"] = Binding(Num(1), TRUE)
    /\ raised = <<>>

(***************************************************************************)
(* C27.  Inside a method body a name resolves first to the call's          *)
(* parameters and locals, then to the instance's fields, then to the       *)
(* global environment; an assignment to a name that is a field of the      *)
(* instance (and is not hidden by a parameter or local) updates that       *)
(* instance's field and leaves a same-named global binding unchanged.      *)
(***************************************************************************)
MethodNames == {"n", "v", "g", "a", "zz"}

FieldsOf(p) == instances[TopFrame(p).self].env

\* the value of name x for the method call on top of evaluation p
ResolvedIn(p, x) ==
    IF x \in DOMAIN envs[TopFrame(p).env].vars THEN Ok(envs[TopFrame(p).env].vars[x].value)
    ELSE IF x \in DOMAIN envs[FieldsOf(p)].vars THEN Ok(envs[FieldsOf(p)].vars[x].value)
    ELSE IF x \in DOMAIN envs[1].vars THEN Ok(envs[1].vars[x].value)
    ELSE Err(UndefinedVariable(x))

AssignsField(p, s) ==
    /\ s.type = "Assignment"
    /\ s.target.type = "Identifier"
    /\ s.target.name \notin DOMAIN envs[TopFrame(p).env].vars
    /\ s.target.name \in DOMAIN envs[FieldsOf(p)].vars
    /\ envs[FieldsOf(p)].vars[s.target.name].mutable
    /\ s.value.type # "CallExpression"
    /\ evaluateExpression(envs, instances, s.value, TopFrame(p).env).error = NoError

C27_MethodScopeChain ==
    [][\A p \in DOMAIN evals :
          (Active(p) /\ TopFrame(p).kind = "method") =>
             /\ \A x \in MethodNames :
                   evaluateExpression(envs, instances, Id(x), TopFrame(p).env) = ResolvedIn(p, x)
             /\ \A s \in ExecutedStmts(p) :
                   AssignsField(p, s) =>
                      /\ envs'[FieldsOf(p)].vars[s.target.name].value
                            = evaluateExpression(envs, instances, s.value, TopFrame(p).env).value
                      /\ envs'[1] = envs[1]
                      /\ raised' = raised
      ]_vars

\* P, n = 9, a = P(1), a.set(2): the body has set the field n to the
\* parameter's 2 and printed it; the global n is still 9
C27_Witness ==
    /\ family = "method"
    /\ Len(programAST) = 4
    /\ programAST[2] = VariableDeclaration("n", TRUE, Lit(9))
    /\ instances # <<>>
    /\ envs[instances[1].env].vars["n"].value = Num(2)
    /\ envs[1].vars["n"].value = Num(9)
    /\ Printed(output, 4) = <<"2">>

(***************************************************************************)
(* C28.  Methods from a `do B for G` block are attached to instances at    *)
(* instantiation time only: an instance of G created before the do block   *)
(* was evaluated never has the block's methods, and every instance of G    *)
(* created after it has them.                                              *)
(***************************************************************************)
\* the top-level do blocks evaluated so far for the group of instance i
DoBlocksFor(i) ==
    {k \in DOMAIN programAST :
        /\ programAST[k].type = "DoImplementation"
        /\ programAST[k].groupName = instances[i].groupName
        /\ \A r \in DOMAIN raised : raised[r].error # UnknownGroup(programAST[k].groupName)}

HasMethod(i, m) ==
    /\ m.name \in DOMAIN instances[i].methods
    /\ instances[i].methods[m.name] = m

\* method m is also a method of a do block evaluated before instance i was made
FromEarlierBlock(i, m) ==
    \E k \in DoBlocksFor(i) :
        /\ k < instances[i].born
        /\ \E j \in DOMAIN programAST[k].methods : programAST[k].methods[j] = m

C28_DoMethodsAttachedAtInstantiation ==
    \A i \in DOMAIN instances : \A k \in DoBlocksFor(i) :
        \A j \in DOMAIN programAST[k].methods :
            /\ (instances[i].born < k /\ ~FromEarlierBlock(i, programAST[k].methods[j]))
                  => ~HasMethod(i, programAST[k].methods[j])
            /\ instances[i].born > k => HasMethod(i, programAST[k].methods[j])

(***************************************************************************)
(* C29.  When the web capability handles a request for a registered route, *)
(* every top-level statement of the route body is executed in order (a     *)
(* respond does not end the handler), and the response body is the content *)
(* of the last respond statement that executed during that request, or     *)
(* "OK" if no respond executed.  Step by step: a respond that executes in  *)
(* a handler makes its content the response so far and the handler goes on *)
(* to the next statement; no other statement that completes changes the    *)
(* response so far; when the body has ended the response sent is the       *)
(* response so far if a respond has executed, and "OK" if none has.        *)
(***************************************************************************)
ContentOf(p, s) == evaluateExpression(envs, instances, s.content, TopFrame(p).env)

Responds(p, s) == s.type = "RespondStatement" /\ ContentOf(p, s).error = NoError

\* a respond has executed in the handler whose body has ended
HasResponded(p) ==
    \/ evals[p].response # ""
    \/ \E k \in DOMAIN TopFrame(p).body : TopFrame(p).body[k].type = "RespondStatement"

C29_LastRespondIsResponse ==
    [][\A p \in DOMAIN evals :
          (evals[p].kind = "handler" /\ Active(p)) =>
             /\ \A s \in ExecutedStmts(p) :
                   IF Responds(p, s)
                   THEN /\ evals'[p].response = JsString(ContentOf(p, s).value)
                        /\ evals'[p].state = "running"
                        /\ Len(evals'[p].stack) = Len(evals[p].stack)
                        /\ evals'[p].stack[Len(evals'[p].stack)].pc = TopFrame(p).pc + 1
                   ELSE raised' = raised => evals'[p].response = evals[p].response
             /\ (AtEnd(p, {"handler"}) /\ evals'[p].state = "done")
                => evals'[p].response = IF HasResponded(p) THEN evals[p].response ELSE "OK"
      ]_vars

(***************************************************************************)
(* C30.  For each window button, at most one invocation of its click       *)
(* callback is in progress at any time: a click detected while the         *)
(* previous invocation's promise is still pending does not start a second  *)
(* invocation until the first has settled (resolved or rejected), after    *)
(* which polling resumes.  An invocation starts only when none is in       *)
(* progress, and it takes the click; while one is in progress a click      *)
(* stays waiting and, the window being open, the poll timer stays set;     *)
(* when it settles the flag is cleared, so the next poll takes the click.  *)
(***************************************************************************)
InProgress(b) == window.buttons[b].pending > 0

C30_OneInvocationPerButton ==
    [][\A b \in DOMAIN window.buttons :
          /\ window.buttons[b].pending <= 1
          /\ window'.buttons[b].pending <= 1
          /\ window'.buttons[b].pending > window.buttons[b].pending
                => /\ ~InProgress(b)
                   /\ window.buttons[b].file /\ ~window'.buttons[b].file
          /\ InProgress(b)
                => /\ window.buttons[b].isExecuting
                   /\ window.process => window.buttons[b].timer
                   /\ window'.process => window'.buttons[b].timer
                   /\ window.buttons[b].file => window'.buttons[b].file
          /\ window'.buttons[b].pending < window.buttons[b].pending
                => ~window'.buttons[b].isExecuting
      ]_vars

\* a click waits on a button whose callback is still in progress
C30_Witness ==
    \E b \in DOMAIN window.buttons :
        /\ window.buttons[b].pending = 1
        /\ window.buttons[b].isExecuting
        /\ window.buttons[b].file
        /\ window.buttons[b].timer
        /\ window.process

====
